---- MODULE Spec2Model ----
(***************************************************************************)
(* Tile-pyramid addressing (TileBoundingBoxUtils) and tile retrieval       *)
(* (GeoPackageTileRetriever) of geopackage-js.                             *)
(*                                                                         *)
(* Lengths are exact rationals <<n, d>> (d > 0, lowest terms) instead of   *)
(* IEEE doubles; coordinates are integers in a length unit chosen so that  *)
(* every tile edge down to zoom MaxZoom is an integer.                     *)
(***************************************************************************)
EXTENDS Integers, Sequences, FiniteSets, TLC

\* A pure function under check: its name, its input and its result.
VARIABLES fn, arg, out

\* One request to a GeoPackageTileRetriever:
\*   tileDao   the storage behind the retriever (fixed during the request)
\*   req       the operation called and its arguments
\*   pc        where the request stands
\*   call      the activation of getTileWithBounds: its arguments and locals
\*   tiles     the local array of fetched tiles
\*   started   how many addTile calls have been made
\*   inFlight  the indexes (into tiles) of the addTile calls not yet settled
\*   surface   the raster surface: whether it exists, and the draws applied
\*   log       the calls to the collaborators, in the order they were made
\*   outcome   what the operation returned, or how it failed
VARIABLES tileDao, req, pc, call, tiles, started, inFlight, surface, log, outcome

pureVars == <<fn, arg, out>>

retrieverVars == <<tileDao, req, pc, call, tiles, started, inFlight, surface, log, outcome>>

vars == <<fn, arg, out, tileDao, req, pc, call, tiles, started, inFlight, surface, log, outcome>>

\* the absent value (undefined, null)
None == [none |-> TRUE]

\* the function named has been applied to arg and out holds its result
Applied(name) == fn = name /\ out # None

\* no retriever takes part in the check of a pure function
NoRequest ==
    /\ tileDao = None /\ req = None /\ pc = "none" /\ call = None /\ tiles = <<>>
    /\ started = 0 /\ inFlight = {} /\ surface = None /\ log = <<>> /\ outcome = None

(***************************************************************************)
(* Bounds of the model.                                                    *)
(***************************************************************************)
\* finest zoom level requested or remapped
MaxZoom == 3
\* largest tile index of the grids handed to tileGridZoom
MaxTileIndex == 7
\* largest number of stored zoom levels handed to determineGeoPackageZoomLevel
MaxLevels == 2

Zooms == 0..MaxZoom

(***************************************************************************)
(* Exact arithmetic standing for the JavaScript number operations.         *)
(***************************************************************************)
Abs(n) == IF n < 0 THEN -n ELSE n

Max(a, b) == IF a >= b THEN a ELSE b

Min(a, b) == IF a <= b THEN a ELSE b

RECURSIVE GCD(_, _)
GCD(a, b) == IF b = 0 THEN a ELSE GCD(b, a % b)

\* the rational n/d in lowest terms with a positive denominator (d # 0)
Rat(n, d) ==
    LET g == GCD(Abs(n), Abs(d))
        s == IF d < 0 THEN -1 ELSE 1
    IN  <<(s * n) \div g, (s * d) \div g>>

R(n) == <<n, 1>>

\* a/b + c/d over the least common denominator, to keep the numbers small
RAdd(a, b) ==
    LET g == GCD(a[2], b[2])
    IN  Rat(a[1] * (b[2] \div g) + b[1] * (a[2] \div g), (a[2] \div g) * b[2])

RSub(a, b) == RAdd(a, <<-b[1], b[2]>>)

\* (a/b) * (c/d) with a/d and c/b reduced before multiplying
RMul(a, b) ==
    LET x == Rat(a[1], b[2])
        y == Rat(b[1], a[2])
    IN  <<x[1] * y[1], x[2] * y[2]>>

\* division by a number other than zero
RDiv(a, b) == RMul(a, Rat(b[2], b[1]))

RLess(a, b) ==
    LET g == GCD(a[2], b[2])
    IN  a[1] * (b[2] \div g) < b[1] * (a[2] \div g)

RLeq(a, b) ==
    LET g == GCD(a[2], b[2])
    IN  a[1] * (b[2] \div g) <= b[1] * (a[2] \div g)

\* Math.floor
Floor(a) == a[1] \div a[2]

\* Math.ceil
Ceil(a) == -((-a[1]) \div a[2])

\* Math.round: the nearest integer, a tie going up
Round(a) == Floor(RAdd(a, <<1, 2>>))

\* ~~v: truncation toward zero
Trunc(a) == IF a[1] >= 0 THEN Floor(a) ELSE Ceil(a)

\* Math.round(v - WEB_MERCATOR_PRECISION): the precision (1e-10) is smaller
\* than half the distance between any two values v of the model, so the
\* subtraction only turns a tie at n + 1/2 from rounding up into rounding down.
RoundLessPrecision(a) == Ceil(RAdd(a, <<1, 2>>)) - 1

\* Math.pow(2, n) for an integer n >= 0
Pow2(n) == 2 ^ n

(***************************************************************************)
(* Value objects.                                                          *)
(***************************************************************************)
\* The bounds of a bounding box are rationals. The source constructs boxes
\* under two argument orders: (minLon, minLat, maxLon, maxLat) in the
\* functions that read a box through getMinLongitude(), and
\* (minLon, maxLon, minLat, maxLat) in the functions that read the fields
\* minLongitude, ... directly. Each construction is modelled by the bound
\* its arguments are named for.
BoundingBox(minLongitude, minLatitude, maxLongitude, maxLatitude) ==
    [minLongitude |-> minLongitude, minLatitude |-> minLatitude,
     maxLongitude |-> maxLongitude, maxLatitude |-> maxLatitude]

BoundingBoxMinMax(minLongitude, maxLongitude, minLatitude, maxLatitude) ==
    BoundingBox(minLongitude, minLatitude, maxLongitude, maxLatitude)

\* Likewise TileGrid(minX, minY, maxX, maxY) and TileGrid(min_x, max_x, min_y, max_y).
TileGrid(minX, minY, maxX, maxY) ==
    [minX |-> minX, minY |-> minY, maxX |-> maxX, maxY |-> maxY]

TileGridMinMax(min_x, max_x, min_y, max_y) == TileGrid(min_x, min_y, max_x, max_y)

(***************************************************************************)
(* Square world tiling (XYZ, Web Mercator).                                *)
(***************************************************************************)
\* ProjectionConstants.WEB_MERCATOR_HALF_WORLD_WIDTH, in a length unit that
\* makes the tile size at zoom MaxZoom 2250 units: fine enough for widths
\* that differ by less than 0.1%, and a multiple of 90 and 180
WEB_MERCATOR_HALF_WORLD_WIDTH == Pow2(MaxZoom) * 1125

HalfWorld == R(WEB_MERCATOR_HALF_WORLD_WIDTH)

\* 1 << zoom on 32-bit integers: the shift count is taken modulo 32 and a
\* shift by 31 gives the most negative integer
tilesPerSideWithZoom(zoom) ==
    LET s == zoom % 32
    IN  IF s = 31 THEN -(2 ^ 30) - (2 ^ 30) ELSE 2 ^ s

\* Math.round(Math.pow(2, zoom))
tilesPerSide(zoom) == Pow2(zoom)

tileSize(tilesPerSide_, totalLength) == RDiv(totalLength, R(tilesPerSide_))

tileSizeWithTilesPerSide(tilesPerSide_) ==
    RDiv(RMul(R(2), HalfWorld), R(tilesPerSide_))

tileSizeWithZoom(zoom) == tileSize(tilesPerSide(zoom), RMul(R(2), HalfWorld))

getWebMercatorBoundingBoxFromTileGrid(tileGrid, zoom) ==
    LET tileSize_ == tileSizeWithZoom(zoom)
        minLon == RAdd(RMul(R(-1), HalfWorld), RMul(R(tileGrid.minX), tileSize_))
        maxLon == RAdd(RMul(R(-1), HalfWorld), RMul(R(tileGrid.maxX + 1), tileSize_))
        minLat == RSub(HalfWorld, RMul(R(tileGrid.maxY + 1), tileSize_))
        maxLat == RSub(HalfWorld, RMul(R(tileGrid.minY), tileSize_))
    IN  BoundingBox(minLon, minLat, maxLon, maxLat)

getWebMercatorBoundingBox(x, y, zoom) ==
    getWebMercatorBoundingBoxFromTileGrid(TileGrid(x, y, x, y), zoom)

\* while (x < 0) x = x + tilesPerSide
RECURSIVE WrapUp(_, _)
WrapUp(x, tilesPerSide_) ==
    IF x < 0 THEN WrapUp(x + tilesPerSide_, tilesPerSide_) ELSE x

\* while (x >= tilesPerSide) x = x - tilesPerSide
RECURSIVE WrapDown(_, _)
WrapDown(x, tilesPerSide_) ==
    IF x >= tilesPerSide_ THEN WrapDown(x - tilesPerSide_, tilesPerSide_) ELSE x

RMax(a, b) == IF RLeq(b, a) THEN a ELSE b

RMin(a, b) == IF RLeq(a, b) THEN a ELSE b

\* options is None or [tileSize |-> pixels, buffer |-> pixels]
getWebMercatorBoundingBoxFromXYZ(x0, y, zoom, options) ==
    LET tilesPerSide_ == tilesPerSideWithZoom(zoom)
        tileSize_ == tileSizeWithTilesPerSide(tilesPerSide_)
        x == WrapDown(WrapUp(x0, tilesPerSide_), tilesPerSide_)
        meterBuffer ==
            IF options # None /\ options.buffer # 0 /\ options.tileSize # 0
            THEN RMul(RDiv(tileSize_, R(options.tileSize)), R(options.buffer))
            ELSE R(0)
        minLon == RSub(RAdd(RMul(R(-1), HalfWorld), RMul(R(x), tileSize_)), meterBuffer)
        maxLon == RAdd(RAdd(RMul(R(-1), HalfWorld), RMul(R(x + 1), tileSize_)), meterBuffer)
        minLat == RSub(RSub(HalfWorld, RMul(R(y + 1), tileSize_)), meterBuffer)
        maxLat == RAdd(RSub(HalfWorld, RMul(R(y), tileSize_)), meterBuffer)
    IN  BoundingBoxMinMax(RMax(RMul(R(-1), HalfWorld), minLon),
                          RMin(HalfWorld, maxLon),
                          RMax(RMul(R(-1), HalfWorld), minLat),
                          RMin(HalfWorld, maxLat))

getTileGridFromBoundingBox(webMercatorBoundingBox, zoom) ==
    LET tilesPerSide_ == tilesPerSide(zoom)
        tileSize_ == tileSize(tilesPerSide_, RMul(R(2), HalfWorld))
        minX == Round(RDiv(RAdd(webMercatorBoundingBox.minLongitude, HalfWorld), tileSize_))
        tempMaxX == RDiv(RAdd(webMercatorBoundingBox.maxLongitude, HalfWorld), tileSize_)
        maxX == Min(RoundLessPrecision(tempMaxX), tilesPerSide_ - 1)
        minY == Round(RDiv(RMul(RSub(webMercatorBoundingBox.maxLatitude, HalfWorld), R(-1)),
                           tileSize_))
        tempMaxY == RDiv(RMul(RSub(webMercatorBoundingBox.minLatitude, HalfWorld), R(-1)),
                         tileSize_)
        maxY == Min(RoundLessPrecision(tempMaxY), tilesPerSide_ - 1)
    IN  TileGrid(minX, minY, maxX, maxY)

\* The result is built by new BoundingBox(minX, maxX, minY, maxY): the tile
\* columns are its longitude bounds and the tile rows its latitude bounds.
webMercatorTileBox(webMercatorBoundingBox, zoom) ==
    LET tilesPerSide_ == tilesPerSideWithZoom(zoom)
        tileSize_ == tileSizeWithTilesPerSide(tilesPerSide_)
        minLonClip == RMax(RMul(R(-1), HalfWorld), webMercatorBoundingBox.minLongitude)
        maxLonClip == RMin(HalfWorld, webMercatorBoundingBox.maxLongitude)
        minLatClip == RMax(RMul(R(-1), HalfWorld), webMercatorBoundingBox.minLatitude)
        maxLatClip == RMin(HalfWorld, webMercatorBoundingBox.maxLatitude)
        minX == Floor(RDiv(RAdd(minLonClip, HalfWorld), tileSize_))
        maxX == Max(0, Ceil(RDiv(RAdd(maxLonClip, HalfWorld), tileSize_)) - 1)
        minY == Floor(RDiv(RSub(HalfWorld, maxLatClip), tileSize_))
        maxY == Max(0, Ceil(RDiv(RSub(HalfWorld, minLatClip), tileSize_)) - 1)
    IN  BoundingBoxMinMax(minX, maxX, minY, maxY)

(***************************************************************************)
(* Arbitrary tile matrix: a total bounding box cut into matrixWidth by     *)
(* matrixHeight tiles.                                                     *)
(***************************************************************************)
getTileColumnWithTotalBoundingBox(webMercatorTotalBox, matrixWidth, longitude) ==
    LET minX == webMercatorTotalBox.minLongitude
        maxX == webMercatorTotalBox.maxLongitude
    IN  IF RLess(longitude, minX) THEN -1
        ELSE IF RLeq(maxX, longitude) THEN matrixWidth
        ELSE LET matrixWidthMeters == RSub(maxX, minX)
                 tileWidth == RDiv(matrixWidthMeters, R(matrixWidth))
                 tileIdDouble == RDiv(RSub(longitude, minX), tileWidth)
             IN  Trunc(tileIdDouble)

getRowWithTotalBoundingBox(webMercatorTotalBox, matrixHeight, latitude) ==
    LET minY == webMercatorTotalBox.minLatitude
        maxY == webMercatorTotalBox.maxLatitude
    IN  IF RLess(latitude, minY) THEN matrixHeight
        ELSE IF RLeq(maxY, latitude) THEN -1
        ELSE LET matrixHeightMeters == RSub(maxY, minY)
                 tileHeight == RDiv(matrixHeightMeters, R(matrixHeight))
                 tileIdDouble == RDiv(RSub(maxY, latitude), tileHeight)
             IN  Trunc(tileIdDouble)

\* mutant: every bound is clamped into the matrix, overlap or not
getTileGridWithTotalBoundingBox_ClampAlways(totalBoundingBox, matrixWidth, matrixHeight, boundingBox) ==
    LET Clamp(i, n) == Max(0, Min(n - 1, i))
    IN  TileGridMinMax(
            Clamp(getTileColumnWithTotalBoundingBox(totalBoundingBox, matrixWidth,
                                                    boundingBox.minLongitude), matrixWidth),
            Clamp(getTileColumnWithTotalBoundingBox(totalBoundingBox, matrixWidth,
                                                    boundingBox.maxLongitude), matrixWidth),
            Clamp(getRowWithTotalBoundingBox(totalBoundingBox, matrixHeight,
                                             boundingBox.maxLatitude), matrixHeight),
            Clamp(getRowWithTotalBoundingBox(totalBoundingBox, matrixHeight,
                                             boundingBox.minLatitude), matrixHeight))

getTileGridWithTotalBoundingBox(totalBoundingBox, matrixWidth, matrixHeight, boundingBox) ==
    LET minColumn0 == getTileColumnWithTotalBoundingBox(totalBoundingBox, matrixWidth,
                                                        boundingBox.minLongitude)
        maxColumn0 == getTileColumnWithTotalBoundingBox(totalBoundingBox, matrixWidth,
                                                        boundingBox.maxLongitude)
        clampColumns == minColumn0 < matrixWidth /\ maxColumn0 >= 0
        minColumn == IF clampColumns /\ minColumn0 < 0 THEN 0 ELSE minColumn0
        maxColumn == IF clampColumns /\ maxColumn0 >= matrixWidth
                     THEN matrixWidth - 1 ELSE maxColumn0
        maxRow0 == getRowWithTotalBoundingBox(totalBoundingBox, matrixHeight,
                                              boundingBox.minLatitude)
        minRow0 == getRowWithTotalBoundingBox(totalBoundingBox, matrixHeight,
                                              boundingBox.maxLatitude)
        clampRows == minRow0 < matrixHeight /\ maxRow0 >= 0
        minRow == IF clampRows /\ minRow0 < 0 THEN 0 ELSE minRow0
        maxRow == IF clampRows /\ maxRow0 >= matrixHeight
                  THEN matrixHeight - 1 ELSE maxRow0
    IN  TileGridMinMax(minColumn, maxColumn, minRow, maxRow)

getTileBoundingBox(box, tileMatrix, tileColumn, tileRow) ==
    LET tileMatrixWidth == tileMatrix.matrix_width
        tileMatrixHeight == tileMatrix.matrix_height
        tileGrid == TileGridMinMax(tileColumn, tileColumn, tileRow, tileRow)
        matrixMinX == box.minLongitude
        matrixMaxX == box.maxLongitude
        matrixWidth == RSub(matrixMaxX, matrixMinX)
        tileWidth == RDiv(matrixWidth, R(tileMatrixWidth))
        minLon == RAdd(matrixMinX, RMul(tileWidth, R(tileGrid.minX)))
        maxLon == RAdd(minLon, RMul(tileWidth, R(tileGrid.maxX + 1 - tileGrid.minX)))
        matrixMinY == box.minLatitude
        matrixMaxY == box.maxLatitude
        matrixHeight == RSub(matrixMaxY, matrixMinY)
        tileHeight == RDiv(matrixHeight, R(tileMatrixHeight))
        maxLat == RSub(matrixMaxY, RMul(tileHeight, R(tileGrid.minY)))
        minLat == RSub(maxLat, RMul(tileHeight, R(tileGrid.maxY + 1 - tileGrid.minY)))
    IN  BoundingBoxMinMax(minLon, maxLon, minLat, maxLat)

\* the placement of a tile in the output raster (the requested box has a
\* positive width and height)
\* mutant: the vertical offset is measured up from the bottom edge
determinePositionAndScale_FromBottom(geoPackageTileBoundingBox, tileHeight, tileWidth, totalBoundingBox, totalHeight, totalWidth) ==
    LET finalTileWidth == RSub(totalBoundingBox.maxLongitude, totalBoundingBox.minLongitude)
        finalTileHeight == RSub(totalBoundingBox.maxLatitude, totalBoundingBox.minLatitude)
        xPositionInFinalTileStart ==
            RMul(RDiv(RSub(geoPackageTileBoundingBox.minLongitude,
                           totalBoundingBox.minLongitude), finalTileWidth), R(totalWidth))
        yPositionInFinalTileStart ==
            RMul(RDiv(RSub(geoPackageTileBoundingBox.minLatitude,
                           totalBoundingBox.minLatitude), finalTileHeight), R(totalHeight))
    IN  [yPositionInFinalTileStart |-> yPositionInFinalTileStart,
         xPositionInFinalTileStart |-> xPositionInFinalTileStart,
         dx |-> xPositionInFinalTileStart,
         dy |-> yPositionInFinalTileStart,
         sx |-> R(0),
         sy |-> R(0),
         dWidth |-> RMul(RSub(geoPackageTileBoundingBox.maxLongitude,
                              geoPackageTileBoundingBox.minLongitude),
                         RDiv(R(totalWidth), finalTileWidth)),
         dHeight |-> RMul(RSub(geoPackageTileBoundingBox.maxLatitude,
                               geoPackageTileBoundingBox.minLatitude),
                          RDiv(R(totalHeight), finalTileHeight)),
         sWidth |-> R(tileWidth),
         sHeight |-> R(tileHeight)]

determinePositionAndScale(geoPackageTileBoundingBox, tileHeight, tileWidth, totalBoundingBox, totalHeight, totalWidth) ==
    LET finalTileWidth == RSub(totalBoundingBox.maxLongitude, totalBoundingBox.minLongitude)
        xoffsetMin == RSub(geoPackageTileBoundingBox.minLongitude,
                           totalBoundingBox.minLongitude)
        xpercentageMin == RDiv(xoffsetMin, finalTileWidth)
        finalTileHeight == RSub(totalBoundingBox.maxLatitude, totalBoundingBox.minLatitude)
        yoffsetMax == RSub(totalBoundingBox.maxLatitude,
                           geoPackageTileBoundingBox.maxLatitude)
        ypercentageMax == RDiv(yoffsetMax, finalTileHeight)
        finalTilePixelsPerUnitWidth == RDiv(R(totalWidth), finalTileWidth)
        widthInFinalTileUnits ==
            RMul(RSub(geoPackageTileBoundingBox.maxLongitude,
                      geoPackageTileBoundingBox.minLongitude),
                 finalTilePixelsPerUnitWidth)
        finalTilePixelsPerUnitHeight == RDiv(R(totalHeight), finalTileHeight)
        heightInFinalTileUnits ==
            RMul(RSub(geoPackageTileBoundingBox.maxLatitude,
                      geoPackageTileBoundingBox.minLatitude),
                 finalTilePixelsPerUnitHeight)
        yPositionInFinalTileStart == RMul(ypercentageMax, R(totalHeight))
        xPositionInFinalTileStart == RMul(xpercentageMin, R(totalWidth))
    IN  [yPositionInFinalTileStart |-> yPositionInFinalTileStart,
         xPositionInFinalTileStart |-> xPositionInFinalTileStart,
         dx |-> xPositionInFinalTileStart,
         dy |-> yPositionInFinalTileStart,
         sx |-> R(0),
         sy |-> R(0),
         dWidth |-> widthInFinalTileUnits,
         dHeight |-> heightInFinalTileUnits,
         sWidth |-> R(tileWidth),
         sHeight |-> R(tileHeight)]

(***************************************************************************)
(* Reprojection collaborator (proj4, BoundingBox.projectBoundingBox).      *)
(* EPSG:4326 stands in as a CRS whose units differ from EPSG:3857 on both  *)
(* axes: the half world is 180 units wide and 90 units high. Any other     *)
(* CRS name is unknown to the collaborator, which then throws.             *)
(***************************************************************************)
SupportedProjection(crs) == crs \in {"EPSG:3857", "EPSG:4326"}

\* the coordinates <<x, y>> of a point of crs in EPSG:3857
ToWebMercator(pt, crs) ==
    IF crs = "EPSG:4326"
    THEN <<RDiv(RMul(pt[1], HalfWorld), R(180)), RDiv(RMul(pt[2], HalfWorld), R(90))>>
    ELSE pt

\* proj4(crs, 'EPSG:3857').inverse(pt)
FromWebMercator(pt, crs) ==
    IF crs = "EPSG:4326"
    THEN <<RDiv(RMul(pt[1], R(180)), HalfWorld), RDiv(RMul(pt[2], R(90)), HalfWorld)>>
    ELSE pt

projectBoundingBox(box, from, to) ==
    LET sw == FromWebMercator(ToWebMercator(<<box.minLongitude, box.minLatitude>>, from), to)
        ne == FromWebMercator(ToWebMercator(<<box.maxLongitude, box.maxLatitude>>, from), to)
    IN  BoundingBoxMinMax(sw[1], ne[1], sw[2], ne[2])

(***************************************************************************)
(* GeoPackageTileRetriever: selection of the stored zoom level.            *)
(* An optional zoom level is the set {} (undefined) or {zoom}.             *)
(***************************************************************************)
RAbs(a) == <<Abs(a[1]), a[2]>>

\* the condition of the loop body
ZoomLevelMatches(tileWidth, width) ==
    LET difference == RAbs(RSub(width, tileWidth))
        tolerance == RMul(<<1, 1000>>, tileWidth)
    IN  RLeq(tileWidth, width) \/ RLeq(difference, tolerance)

\* the loop over tileDao.widths from index i (counted from 1) on
RECURSIVE ZoomLevelLoop(_, _, _, _)
ZoomLevelLoop(tileDao_, width, i, gpZoom) ==
    IF i > Len(tileDao_.widths) THEN gpZoom
    ELSE ZoomLevelLoop(tileDao_, width, i + 1,
                       IF ZoomLevelMatches(tileDao_.widths[i], width)
                       THEN {tileDao_.maxZoom - (i - 1)}
                       ELSE gpZoom)

\* mutant: the loop stops at the first width that matches
determineGeoPackageZoomLevel_FirstMatch(tileDao_, webMercatorBoundingBox) ==
    LET ne == FromWebMercator(<<webMercatorBoundingBox.maxLongitude,
                                webMercatorBoundingBox.maxLatitude>>, tileDao_.projection)
        sw == FromWebMercator(<<webMercatorBoundingBox.minLongitude,
                                webMercatorBoundingBox.minLatitude>>, tileDao_.projection)
        width == RSub(ne[1], sw[1])
        hits == {i \in 1..Len(tileDao_.widths) : ZoomLevelMatches(tileDao_.widths[i], width)}
    IN  IF hits = {} THEN {}
        ELSE {tileDao_.maxZoom - ((CHOOSE i \in hits : \A j \in hits : i <= j) - 1)}

determineGeoPackageZoomLevel(tileDao_, webMercatorBoundingBox) ==
    LET ne == FromWebMercator(<<webMercatorBoundingBox.maxLongitude,
                                webMercatorBoundingBox.maxLatitude>>, tileDao_.projection)
        sw == FromWebMercator(<<webMercatorBoundingBox.minLongitude,
                                webMercatorBoundingBox.minLatitude>>, tileDao_.projection)
        width == RSub(ne[1], sw[1])
    IN  ZoomLevelLoop(tileDao_, width, 1, {})

(***************************************************************************)
(* Zoom-level remapping of a tile grid.                                    *)
(***************************************************************************)
tileGridMinZoomIncrease(min, zoomLevels) == min * Pow2(zoomLevels)

\* mutant: the upper bound is not brought back inside the last nested tile
tileGridMaxZoomIncrease_NoDecrement(max, zoomLevels) ==
    (max + 1) * Pow2(zoomLevels)

tileGridMaxZoomIncrease(max, zoomLevels) == (max + 1) * Pow2(zoomLevels) - 1

\* mutant: the lower bound is rounded up instead of down
tileGridMinZoomDecrease_Ceil(min, zoomLevels) ==
    Ceil(RDiv(R(min), R(Pow2(zoomLevels))))

tileGridMinZoomDecrease(min, zoomLevels) ==
    Floor(RDiv(R(min), R(Pow2(zoomLevels))))

\* mutant: the "- 1" of the upper bound is dropped
tileGridMaxZoomDecrease_NoDecrement(max, zoomLevels) ==
    Ceil(RDiv(R(max + 1), R(Pow2(zoomLevels))))

tileGridMaxZoomDecrease(max, zoomLevels) ==
    Ceil(RSub(RDiv(R(max + 1), R(Pow2(zoomLevels))), R(1)))

tileGridZoomIncrease(tileGrid, zoomLevels) ==
    TileGrid(tileGridMinZoomIncrease(tileGrid.minX, zoomLevels),
             tileGridMinZoomIncrease(tileGrid.minY, zoomLevels),
             tileGridMaxZoomIncrease(tileGrid.maxX, zoomLevels),
             tileGridMaxZoomIncrease(tileGrid.maxY, zoomLevels))

tileGridZoomDecrease(tileGrid, zoomLevels) ==
    TileGrid(tileGridMinZoomDecrease(tileGrid.minX, zoomLevels),
             tileGridMinZoomDecrease(tileGrid.minY, zoomLevels),
             tileGridMaxZoomDecrease(tileGrid.maxX, zoomLevels),
             tileGridMaxZoomDecrease(tileGrid.maxY, zoomLevels))

tileGridZoom(tileGrid, fromZoom, toZoom) ==
    LET zoomChange == toZoom - fromZoom
    IN  IF zoomChange > 0 THEN tileGridZoomIncrease(tileGrid, zoomChange)
        ELSE IF zoomChange < 0 THEN tileGridZoomDecrease(tileGrid, Abs(zoomChange))
        ELSE tileGrid

(***************************************************************************)
(* Storage collaborator (TileDao).                                         *)
(* The pyramid stored is the north-west quadrant of the world, cut at zoom *)
(* level z into 2^(z-1) by 2^(z-1) tiles that coincide with the XYZ tiles  *)
(* of zoom z; the zoom levels 1 .. MaxZoom - 1 are stored.                 *)
(***************************************************************************)
TILE_PIXELS == 256

OUTPUT_WIDTH == 256

OUTPUT_HEIGHT == 256

\* tileDao.getTileMatrixWithZoomLevel(zoom): the tile matrix, or None
getTileMatrixWithZoomLevel(tileDao_, zoom) ==
    IF zoom = {} \/ \A z \in zoom : z < tileDao_.minZoom \/ z > tileDao_.maxZoom
    THEN None
    ELSE LET z == CHOOSE z \in zoom : TRUE
         IN  [zoom_level |-> z,
              matrix_width |-> Pow2(z - 1), matrix_height |-> Pow2(z - 1),
              tile_width |-> TILE_PIXELS, tile_height |-> TILE_PIXELS]

\* the stored tiles of a zoom level inside a tile grid
TilesInGrid(tileDao_, tileGrid, zoom) ==
    {t \in tileDao_.tiles :
        /\ t.zoom_level = zoom
        /\ tileGrid.minX <= t.tile_column /\ t.tile_column <= tileGrid.maxX
        /\ tileGrid.minY <= t.tile_row /\ t.tile_row <= tileGrid.maxY}

\* t comes before u, by row and then by column
TileBefore(t, u) ==
    \/ t.tile_row < u.tile_row
    \/ t.tile_row = u.tile_row /\ t.tile_column < u.tile_column

\* a finite set of tiles as the sequence sorted by TileBefore
RECURSIVE SortedTiles(_)
SortedTiles(set) ==
    IF set = {} THEN <<>>
    ELSE LET first == CHOOSE t \in set : \A u \in set \ {t} : TileBefore(t, u)
         IN  <<first>> \o SortedTiles(set \ {first})

Reverse(seq) == [i \in 1..Len(seq) |-> seq[Len(seq) + 1 - i]]

\* tileDao.queryByTileGrid(tileGrid, zoom): the rows come in an order the
\* storage chooses
queryByTileGrid(tileDao_, tileGrid, zoom, descending) ==
    LET rows == SortedTiles(TilesInGrid(tileDao_, tileGrid, zoom))
    IN  IF descending THEN Reverse(rows) ELSE rows

\* tileDao.countByTileGrid(tileGrid, zoom)
countByTileGrid(tileDao_, tileGrid, zoom) ==
    Cardinality(TilesInGrid(tileDao_, tileGrid, zoom))

StoredZooms == 1..(MaxZoom - 1)

AllTiles ==
    UNION {[zoom_level : {z}, tile_column : 0..(Pow2(z - 1) - 1),
            tile_row : 0..(Pow2(z - 1) - 1)] : z \in StoredZooms}

\* the quadrant in EPSG:3857
StoredExtent ==
    BoundingBox(RSub(R(0), HalfWorld), R(0), R(0), HalfWorld)

TileDaos ==
    {[projection |-> crs,
      tileMatrixSetBox |->
          IF crs = "EPSG:4326"
          THEN projectBoundingBox(StoredExtent, "EPSG:3857", "EPSG:4326")
          ELSE StoredExtent,
      minZoom |-> 1,
      maxZoom |-> MaxZoom - 1,
      widths |-> [i \in 1..(MaxZoom - 1) |->
                     RDiv(IF crs = "EPSG:4326" THEN R(180) ELSE HalfWorld,
                          R(Pow2(MaxZoom - 1 - i)))],
      tiles |-> stored]
     : crs \in {"EPSG:3857", "EPSG:4326", "EPSG:0"},
       stored \in {AllTiles,
                   {t \in AllTiles : (t.tile_column + t.tile_row) % 2 = 0}}}

(***************************************************************************)
(* GeoPackageTileRetriever: one request.                                   *)
(***************************************************************************)
\* the tiles an XYZ operation is asked for: every tile down to zoom MaxZoom,
\* and the columns one off either end of the matrix
XYZRequests ==
    UNION {[x : (-1)..Pow2(z), y : 0..(Pow2(z) - 1), zoom : {z}] : z \in Zooms}

Degrees(minLon, minLat, maxLon, maxLat) ==
    BoundingBox(R(minLon), R(minLat), R(maxLon), R(maxLat))

\* the boxes a WGS84 operation is asked for, in EPSG:4326: the stored
\* quadrant, single stored tiles, a box inside one tile, a box across the
\* edge of the quadrant, a box outside it, and the whole world
Wgs84Requests ==
    {Degrees(-180, 0, 0, 90), Degrees(-180, 45, -90, 90), Degrees(-90, 0, 0, 45),
     Degrees(-170, 50, -100, 80), Degrees(-90, -45, 90, 45), Degrees(0, -90, 180, 0),
     Degrees(-180, -90, 180, 90)}

InitRetriever ==
    /\ fn = "none" /\ arg = None /\ out = None
    /\ tileDao \in TileDaos
    /\ req = None
    /\ pc = "idle"
    /\ call = None
    /\ tiles = <<>>
    /\ started = 0
    /\ inFlight = {}
    /\ surface = [created |-> FALSE, draws |-> <<>>]
    /\ log = <<>>
    /\ outcome = [kind |-> "pending"]

Request(op, x, y, zoom, box, canvas) ==
    [op |-> op, x |-> x, y |-> y, zoom |-> zoom, box |-> box, canvas |-> canvas]

\* the operation ends: it returns, or throws, or its promise settles
Finish(result, events) ==
    /\ pc' = "done"
    /\ outcome' = result
    /\ log' = log \o events

Failure(source) == [kind |-> "error", source |-> source]

\* getTileWithBounds up to its first await: without a tile matrix for the
\* zoom level the promise resolves with nothing, else TileCreator.initialize
\* is awaited
EnterGetTileWithBounds(targetBoundingBox, zoom, targetProjection, canvas) ==
    LET tileMatrix == getTileMatrixWithZoomLevel(tileDao, zoom)
    IN  IF tileMatrix = None
        THEN /\ Finish([kind |-> "empty"], <<[ev |-> "getTileMatrix", found |-> FALSE]>>)
             /\ UNCHANGED call
        ELSE /\ pc' = "initialize"
             /\ call' = [targetBoundingBox |-> targetBoundingBox, zoom |-> zoom,
                         targetProjection |-> targetProjection, canvas |-> canvas,
                         tileMatrix |-> tileMatrix, storageBox |-> None,
                         tileGrid |-> None]
             /\ log' = log \o <<[ev |-> "getTileMatrix", found |-> TRUE]>>
             /\ UNCHANGED outcome

\* the operations that select the zoom level from the width of the box:
\* proj4 throws when it does not know the CRS of the storage
EnterWithSelectedZoom(webMercatorBoundingBox, canvas) ==
    IF ~SupportedProjection(tileDao.projection)
    THEN /\ Finish(Failure("projection"), <<>>)
         /\ UNCHANGED call
    ELSE EnterGetTileWithBounds(webMercatorBoundingBox,
                                determineGeoPackageZoomLevel(tileDao, webMercatorBoundingBox),
                                "EPSG:3857", canvas)

hasTile ==
    \E t \in XYZRequests, storageFails \in BOOLEAN :
        LET webMercatorBoundingBox == getWebMercatorBoundingBoxFromXYZ(t.x, t.y, t.zoom, None)
            tileMatrix == getTileMatrixWithZoomLevel(tileDao, {t.zoom})
        IN  /\ pc = "idle"
            /\ req' = Request("hasTile", t.x, t.y, {t.zoom}, None, FALSE)
            /\ IF tileMatrix = None
               THEN \* tileMatrix.matrix_width of undefined
                    /\ ~storageFails
                    /\ Finish(Failure("TypeError"),
                              <<[ev |-> "getTileMatrix", found |-> FALSE]>>)
               ELSE LET tileGrid == getTileGridWithTotalBoundingBox(
                                        tileDao.tileMatrixSetBox, tileMatrix.matrix_width,
                                        tileMatrix.matrix_height, webMercatorBoundingBox)
                        events == <<[ev |-> "getTileMatrix", found |-> TRUE],
                                    [ev |-> "countByTileGrid", tileGrid |-> tileGrid]>>
                    IN  IF storageFails
                        THEN Finish(Failure("storage"), events)
                        ELSE Finish([kind |-> "boolean",
                                     value |-> countByTileGrid(tileDao, tileGrid, t.zoom) # 0],
                                    events)
            /\ UNCHANGED <<fn, arg, out, tileDao, call, tiles, started, inFlight, surface>>

\* passthrough is what the caller wishes for (the stored bytes of a single
\* matching tile instead of a new encoding); getTile has no parameter for it
getTile ==
    \E t \in XYZRequests, passthrough \in BOOLEAN :
        /\ pc = "idle"
        /\ req' = Request("getTile", t.x, t.y, {t.zoom}, None, FALSE)
                       @@ [passthrough |-> passthrough]
        /\ EnterWithSelectedZoom(getWebMercatorBoundingBoxFromXYZ(t.x, t.y, t.zoom, None), FALSE)
        /\ UNCHANGED <<fn, arg, out, tileDao, tiles, started, inFlight, surface>>

drawTileIn ==
    \E t \in XYZRequests, canvas \in BOOLEAN :
        /\ pc = "idle"
        /\ req' = Request("drawTileIn", t.x, t.y, {t.zoom}, None, canvas)
        /\ EnterWithSelectedZoom(getWebMercatorBoundingBoxFromXYZ(t.x, t.y, t.zoom, None), canvas)
        /\ UNCHANGED <<fn, arg, out, tileDao, tiles, started, inFlight, surface>>

getWebMercatorTile ==
    \E t \in XYZRequests :
        /\ pc = "idle"
        /\ req' = Request("getWebMercatorTile", t.x, t.y, {t.zoom}, None, FALSE)
        /\ EnterWithSelectedZoom(getWebMercatorBoundingBoxFromXYZ(t.x, t.y, t.zoom, None), FALSE)
        /\ UNCHANGED <<fn, arg, out, tileDao, tiles, started, inFlight, surface>>

getTileWithWgs84Bounds ==
    \E wgs84BoundingBox \in Wgs84Requests, canvas \in BOOLEAN :
        /\ pc = "idle"
        /\ req' = Request("getTileWithWgs84Bounds", 0, 0, {}, wgs84BoundingBox, canvas)
        /\ EnterWithSelectedZoom(
               projectBoundingBox(wgs84BoundingBox, "EPSG:4326", "EPSG:3857"), canvas)
        /\ UNCHANGED <<fn, arg, out, tileDao, tiles, started, inFlight, surface>>

getTileWithWgs84BoundsInProjection ==
    \E wgs84BoundingBox \in Wgs84Requests, zoom \in Zooms,
       targetProjection \in {"EPSG:3857", "EPSG:4326"}, canvas \in BOOLEAN :
        /\ pc = "idle"
        /\ req' = Request("getTileWithWgs84BoundsInProjection", 0, 0, {zoom},
                          wgs84BoundingBox, canvas)
        /\ EnterGetTileWithBounds(
               projectBoundingBox(wgs84BoundingBox, "EPSG:4326", targetProjection),
               {zoom}, targetProjection, canvas)
        /\ UNCHANGED <<fn, arg, out, tileDao, tiles, started, inFlight, surface>>

\* TileCreator.initialize rejects
InitializeRejects ==
    /\ pc = "initialize"
    /\ Finish(Failure("initialize"), <<[ev |-> "initialize"]>>)
    /\ UNCHANGED <<fn, arg, out, tileDao, req, call, tiles, started, inFlight, surface>>

\* the tile record pushed onto the local array
FetchedTile(row) ==
    [data |-> row, gridColumn |-> row.tile_column, gridRow |-> row.tile_row]

\* TileCreator.initialize resolves, and getTileWithBounds runs on to the
\* end of its body: the box is projected into the CRS of the storage, the
\* tile grid is computed and queried (retrieveTileResults), the rows are
\* read, and the chain of addTile calls is built
InitializeResolves ==
    /\ pc = "initialize"
    /\ surface' = [surface EXCEPT !.created = TRUE]
    /\ IF ~SupportedProjection(tileDao.projection)
       THEN /\ Finish(Failure("projection"),
                      <<[ev |-> "initialize"], [ev |-> "projectBoundingBox"]>>)
            /\ UNCHANGED <<call, tiles>>
       ELSE LET storageBox == projectBoundingBox(call.targetBoundingBox,
                                                 call.targetProjection, tileDao.projection)
                tileGrid == getTileGridWithTotalBoundingBox(
                                tileDao.tileMatrixSetBox, call.tileMatrix.matrix_width,
                                call.tileMatrix.matrix_height, storageBox)
                events == <<[ev |-> "initialize"], [ev |-> "projectBoundingBox"],
                            [ev |-> "queryByTileGrid", tileGrid |-> tileGrid]>>
            IN  /\ call' = [call EXCEPT !.storageBox = storageBox, !.tileGrid = tileGrid]
                /\ \E storageFails \in BOOLEAN, descending \in BOOLEAN :
                       LET rows == queryByTileGrid(tileDao, tileGrid,
                                                   call.tileMatrix.zoom_level, descending)
                       IN  IF storageFails
                           THEN /\ ~descending
                                /\ Finish(Failure("storage"), events)
                                /\ UNCHANGED tiles
                           ELSE /\ descending => Len(rows) > 1
                                /\ tiles' = [i \in 1..Len(rows) |-> FetchedTile(rows[i])]
                                /\ pc' = "drawing"
                                /\ log' = log \o events
                                /\ UNCHANGED outcome
    /\ UNCHANGED <<fn, arg, out, tileDao, req, started, inFlight>>

\* mutant: every addTile is called at once (a Promise.all over the tiles)
CanStartAddTile_AllAtOnce(k) == TRUE

\* sequence.then(...): the k-th addTile is called when the promise of the
\* (k-1)-th has resolved
CanStartAddTile(k) == inFlight = {} /\ Len(surface.draws) = k - 1

AddTileStarts ==
    /\ pc = "drawing"
    /\ started < Len(tiles)
    /\ CanStartAddTile(started + 1)
    /\ started' = started + 1
    /\ inFlight' = inFlight \cup {started + 1}
    /\ log' = log \o <<[ev |-> "addTile", k |-> started + 1]>>
    /\ UNCHANGED <<fn, arg, out, tileDao, req, pc, call, tiles, surface, outcome>>

\* creator.addTile draws the tile where determinePositionAndScale puts it
\* in the requested box
Draw(tile) ==
    [gridColumn |-> tile.gridColumn, gridRow |-> tile.gridRow,
     position |-> determinePositionAndScale(
                      getTileBoundingBox(tileDao.tileMatrixSetBox, call.tileMatrix,
                                         tile.gridColumn, tile.gridRow),
                      call.tileMatrix.tile_height, call.tileMatrix.tile_width,
                      call.storageBox, OUTPUT_HEIGHT, OUTPUT_WIDTH)]

AddTileResolves ==
    \E k \in inFlight :
        /\ pc = "drawing"
        /\ inFlight' = inFlight \ {k}
        /\ surface' = [surface EXCEPT !.draws = Append(@, Draw(tiles[k]))]
        /\ log' = log \o <<[ev |-> "addTileDone", k |-> k]>>
        /\ UNCHANGED <<fn, arg, out, tileDao, req, pc, call, tiles, started, outcome>>

\* mutant: a rejected addTile is swallowed and the chain goes on
AfterAddTileRejects_GoOn(k) ==
    /\ pc' = pc
    /\ outcome' = [kind |-> "error", source |-> "addTile", k |-> k]
    /\ log' = log \o <<[ev |-> "addTileFailed", k |-> k]>>

\* a rejected addTile rejects the chain: no later callback runs
AfterAddTileRejects(k) ==
    Finish([kind |-> "error", source |-> "addTile", k |-> k],
           <<[ev |-> "addTileFailed", k |-> k]>>)

AddTileRejects ==
    \E k \in inFlight :
        /\ pc = "drawing"
        /\ inFlight' = inFlight \ {k}
        /\ AfterAddTileRejects(k)
        /\ UNCHANGED <<fn, arg, out, tileDao, req, call, tiles, started, surface>>

\* the last callback of the chain: without a canvas of the caller the
\* raster is encoded (creator.getCompleteTile), else nothing is returned
Emit ==
    /\ pc = "drawing"
    /\ started = Len(tiles)
    /\ inFlight = {}
    /\ IF call.canvas
       THEN Finish([kind |-> "drawn"], <<>>)
       ELSE Finish([kind |-> "raster", draws |-> surface.draws],
                   <<[ev |-> "getCompleteTile"]>>)
    /\ UNCHANGED <<fn, arg, out, tileDao, req, call, tiles, started, inFlight, surface>>

Next ==
    \/ hasTile
    \/ getTile
    \/ drawTileIn
    \/ getWebMercatorTile
    \/ getTileWithWgs84Bounds
    \/ getTileWithWgs84BoundsInProjection
    \/ InitializeResolves
    \/ InitializeRejects
    \/ AddTileStarts
    \/ AddTileResolves
    \/ AddTileRejects
    \/ Emit

Spec == InitRetriever /\ [][Next]_vars

\* the positions of the log that hold a call of the kind named
Calls(ev) == {i \in 1..Len(log) : log[i].ev = ev}

\* the stored tiles whose extent is exactly the box the request asks for,
\* in the tile matrix the request selected
ExactTiles ==
    {t \in tileDao.tiles :
        /\ t.zoom_level = call.tileMatrix.zoom_level
        /\ call.storageBox = getTileBoundingBox(tileDao.tileMatrixSetBox, call.tileMatrix,
                                                t.tile_column, t.tile_row)}

\* the rows of the tile grid have been fetched
Fetched ==
    /\ call # None
    /\ call.tileGrid # None
    /\ pc = "drawing" \/ (pc = "done" /\ outcome.kind \in {"raster", "drawn"})

\* C1: a request for exactly the extent of a stored tile (c, r), with an
\* output of 256 x 256, computes the tile grid of the single cell (c, r),
\* fetches exactly one tile, and draws it at (0, 0, 256, 256).
C1_ExactExtentFetchesOneTile ==
    Fetched =>
        \A t \in ExactTiles :
            /\ call.tileGrid = TileGridMinMax(t.tile_column, t.tile_column,
                                              t.tile_row, t.tile_row)
            /\ Len(tiles) = 1
            /\ \A i \in 1..Len(surface.draws) :
                   /\ surface.draws[i].position.dx = R(0)
                   /\ surface.draws[i].position.dy = R(0)
                   /\ surface.draws[i].position.dWidth = R(256)
                   /\ surface.draws[i].position.dHeight = R(256)

\* what the code does in the case of C1: the grid reaches from (c, r) to
\* the next column and row where the matrix has them, and the tile (c, r)
\* itself is drawn at (0, 0, 256, 256)
C1_ExactExtentGridAndPlacement ==
    Fetched =>
        \A t \in ExactTiles :
            /\ call.tileGrid =
                   TileGridMinMax(t.tile_column,
                                  Min(t.tile_column + 1, call.tileMatrix.matrix_width - 1),
                                  t.tile_row,
                                  Min(t.tile_row + 1, call.tileMatrix.matrix_height - 1))
            /\ \A i \in 1..Len(surface.draws) :
                   (/\ surface.draws[i].gridColumn = t.tile_column
                    /\ surface.draws[i].gridRow = t.tile_row)
                   => /\ surface.draws[i].position.dx = R(0)
                      /\ surface.draws[i].position.dy = R(0)
                      /\ surface.draws[i].position.dWidth = R(256)
                      /\ surface.draws[i].position.dHeight = R(256)

\* C3: when the storage has no tile matrix for the zoom level used, every
\* operation ends with an empty result (nothing, or false for hasTile)
\* without throwing, queries no tile rows and creates no raster surface.
C3_NoTileMatrixIsEmptyResult ==
    (\E i \in Calls("getTileMatrix") : ~log[i].found) =>
        /\ pc = "done"
        /\ \/ outcome.kind = "empty"
           \/ outcome.kind = "boolean" /\ ~outcome.value
        /\ Calls("queryByTileGrid") = {} /\ Calls("countByTileGrid") = {}
        /\ ~surface.created /\ surface.draws = <<>>

\* the part of C3 that the code satisfies: the operations that go through
\* getTileWithBounds
C3_NoTileMatrixInGetTileWithBounds ==
    ((\E i \in Calls("getTileMatrix") : ~log[i].found) /\ req.op # "hasTile") =>
        /\ pc = "done"
        /\ outcome.kind = "empty"
        /\ Calls("queryByTileGrid") = {}
        /\ ~surface.created /\ surface.draws = <<>>

\* C4: the draws of a request are serialized: at most one addTile is in
\* flight, the k-th addTile is called only after the (k-1)-th has resolved,
\* the draws are applied in the order the storage produced the tiles, and
\* getCompleteTile is called only after the last draw has resolved.
C4_DrawsSerialized ==
    /\ Cardinality(inFlight) <= 1
    /\ \A i \in Calls("addTile") :
           log[i].k > 1 =>
               \E j \in Calls("addTileDone") : j < i /\ log[j].k = log[i].k - 1
    /\ \A i \in 1..Len(surface.draws) :
           /\ surface.draws[i].gridColumn = tiles[i].gridColumn
           /\ surface.draws[i].gridRow = tiles[i].gridRow
    /\ \A i \in Calls("getCompleteTile") :
           \A k \in 1..Len(tiles) :
               \E j \in Calls("addTileDone") : j < i /\ log[j].k = k

C4_Witness ==
    /\ pc = "done"
    /\ outcome.kind = "raster"
    /\ Len(tiles) = 4
    /\ TileBefore(tiles[4].data, tiles[1].data)
    /\ Len(surface.draws) = 4
    /\ Calls("getCompleteTile") # {}

\* C5: when the storage fails while the tile rows are fetched, the request
\* fails, nothing is encoded and no draw has been applied; when an addTile
\* fails, the request fails, no later tile is drawn and nothing is encoded.
C5_FailureStopsRequest ==
    outcome.kind = "error" =>
        /\ outcome.source = "storage" =>
              /\ pc = "done"
              /\ started = 0 /\ surface.draws = <<>>
              /\ Calls("getCompleteTile") = {}
        /\ outcome.source = "addTile" =>
              /\ pc = "done"
              /\ started = outcome.k /\ inFlight = {}
              /\ Len(surface.draws) = outcome.k - 1
              /\ Calls("getCompleteTile") = {}

C5_Witness ==
    /\ pc = "done"
    /\ outcome.kind = "error"
    /\ outcome.source = "addTile"
    /\ outcome.k = 2
    /\ Len(tiles) = 4
    /\ call.canvas
    /\ Len(surface.draws) = 1

\* C6: the requested box is projected into the CRS of the storage before
\* the raster surface is created and before the storage is queried, so a
\* failed reprojection leaves no surface created and no tile query issued.
C6_ReprojectionBeforeSurface ==
    /\ \A i \in Calls("initialize") :
           \E j \in Calls("projectBoundingBox") : j < i
    /\ \A i \in Calls("queryByTileGrid") :
           \E j \in Calls("projectBoundingBox") : j < i
    /\ (outcome.kind = "error" /\ outcome.source = "projection") =>
           /\ ~surface.created
           /\ Calls("queryByTileGrid") = {}

\* the part of C6 that the code satisfies: the projection comes before the
\* query of the tile rows
C6_ReprojectionBeforeQuery ==
    /\ \A i \in Calls("queryByTileGrid") :
           \E j \in Calls("projectBoundingBox") : j < i
    /\ (outcome.kind = "error" /\ outcome.source = "projection") =>
           Calls("queryByTileGrid") = {}

(***************************************************************************)
(* Specification of the zoom remapping: tileGridZoom applied to every      *)
(* grid and pair of zoom levels within the bounds.                         *)
(***************************************************************************)
TileIndexes == 0..MaxTileIndex

TileGrids ==
    {TileGrid(a, b, c, d) : a \in TileIndexes, b \in TileIndexes,
                            c \in TileIndexes, d \in TileIndexes}

ValidTileGrids == {g \in TileGrids : g.minX <= g.maxX /\ g.minY <= g.maxY}

TileGridZoomInputs ==
    [tileGrid : ValidTileGrids, fromZoom : Zooms, toZoom : Zooms]

InitZoom == fn = "tileGridZoom" /\ arg \in TileGridZoomInputs /\ out = None /\ NoRequest

ApplyTileGridZoom ==
    /\ fn = "tileGridZoom"
    /\ out = None
    /\ out' = tileGridZoom(arg.tileGrid, arg.fromZoom, arg.toZoom)
    /\ UNCHANGED <<fn, arg>>
    /\ UNCHANGED retrieverVars

NextZoom == ApplyTileGridZoom

SpecZoom == InitZoom /\ [][NextZoom]_vars

\* C8: zooming in by d = toZoom - fromZoom > 0 levels gives, on each axis,
\* newMin = min * 2^d and newMax = (max + 1) * 2^d - 1; TileGrid(1,1,1,1)
\* remapped from zoom 0 to zoom 2 is TileGrid(4,4,7,7).
C8_ZoomIncreaseFormula ==
    Applied("tileGridZoom") =>
        /\ arg.fromZoom < arg.toZoom =>
              LET d == arg.toZoom - arg.fromZoom
                  g == arg.tileGrid
              IN  /\ out.minX = g.minX * (2 ^ d)
                  /\ out.minY = g.minY * (2 ^ d)
                  /\ out.maxX = (g.maxX + 1) * (2 ^ d) - 1
                  /\ out.maxY = (g.maxY + 1) * (2 ^ d) - 1
        /\ (arg.tileGrid = TileGrid(1, 1, 1, 1) /\ arg.fromZoom = 0 /\ arg.toZoom = 2)
              => out = TileGrid(4, 4, 7, 7)

C8_Witness ==
    /\ Applied("tileGridZoom")
    /\ arg = [tileGrid |-> TileGrid(1, 1, 1, 1), fromZoom |-> 0, toZoom |-> 2]
    /\ out = TileGrid(4, 4, 7, 7)

\* C9: zooming a grid in by k >= 0 levels and back out by k levels gives the
\* grid back; TileGrid(4,4,7,7) remapped from zoom 2 to zoom 0 is
\* TileGrid(1,1,1,1).
C9_ZoomInThenOutIsIdentity ==
    Applied("tileGridZoom") =>
        /\ arg.fromZoom <= arg.toZoom =>
              tileGridZoom(out, arg.toZoom, arg.fromZoom) = arg.tileGrid
        /\ (arg.tileGrid = TileGrid(4, 4, 7, 7) /\ arg.fromZoom = 2 /\ arg.toZoom = 0)
              => out = TileGrid(1, 1, 1, 1)

C9_Witness ==
    /\ Applied("tileGridZoom")
    /\ arg.fromZoom = 0 /\ arg.toZoom = 2
    /\ arg.tileGrid = TileGrid(1, 0, 1, 1)
    /\ out = TileGrid(4, 0, 7, 7)
    /\ tileGridZoom(out, 2, 0) = arg.tileGrid

\* the indexes lo..hi all lie in newMin..newMax
Covers(newMin, newMax, lo, hi) ==
    \A u \in lo..hi : newMin <= u /\ u <= newMax

\* C10: the remapped grid never under-covers the original: zooming out, the
\* ancestor floor(t / 2^|d|) of every tile index t of the grid is inside the
\* new range; zooming in, every descendant t * 2^d .. (t + 1) * 2^d - 1 is;
\* and the new range is not empty (newMin <= newMax).
C10_RemapNeverUnderCovers ==
    Applied("tileGridZoom") =>
        LET g == arg.tileGrid
            d == arg.toZoom - arg.fromZoom
            p == 2 ^ Abs(d)
        IN  /\ out.minX <= out.maxX
            /\ out.minY <= out.maxY
            /\ d < 0 =>
                  /\ \A t \in g.minX..g.maxX : Covers(out.minX, out.maxX, t \div p, t \div p)
                  /\ \A t \in g.minY..g.maxY : Covers(out.minY, out.maxY, t \div p, t \div p)
            /\ d >= 0 =>
                  /\ \A t \in g.minX..g.maxX : Covers(out.minX, out.maxX, t * p, (t + 1) * p - 1)
                  /\ \A t \in g.minY..g.maxY : Covers(out.minY, out.maxY, t * p, (t + 1) * p - 1)

C10_Witness ==
    /\ Applied("tileGridZoom")
    /\ arg = [tileGrid |-> TileGrid(1, 2, 2, 5), fromZoom |-> 2, toZoom |-> 1]
    /\ out = TileGrid(0, 1, 1, 2)

(***************************************************************************)
(* Specification of the XYZ round trip: the Web Mercator box of every tile *)
(* (x, y) down to zoom MaxZoom, by either box function, handed to either   *)
(* tile-grid function at the same zoom.                                    *)
(***************************************************************************)
XYZInputs ==
    UNION {[x : 0..(Pow2(z) - 1), y : 0..(Pow2(z) - 1), zoom : {z},
            boxFn : {"getWebMercatorBoundingBox", "getWebMercatorBoundingBoxFromXYZ"}]
           : z \in Zooms}

XYZBox(a) ==
    IF a.boxFn = "getWebMercatorBoundingBox"
    THEN getWebMercatorBoundingBox(a.x, a.y, a.zoom)
    ELSE getWebMercatorBoundingBoxFromXYZ(a.x, a.y, a.zoom, None)

InitXYZ ==
    /\ fn \in {"getTileGridFromBoundingBox", "webMercatorTileBox"}
    /\ arg \in XYZInputs
    /\ out = None
    /\ NoRequest

ApplyGetTileGridFromBoundingBox ==
    /\ fn = "getTileGridFromBoundingBox"
    /\ out = None
    /\ out' = getTileGridFromBoundingBox(XYZBox(arg), arg.zoom)
    /\ UNCHANGED <<fn, arg>>
    /\ UNCHANGED retrieverVars

ApplyWebMercatorTileBox ==
    /\ fn = "webMercatorTileBox"
    /\ out = None
    /\ out' = webMercatorTileBox(XYZBox(arg), arg.zoom)
    /\ UNCHANGED <<fn, arg>>
    /\ UNCHANGED retrieverVars

NextXYZ == ApplyGetTileGridFromBoundingBox \/ ApplyWebMercatorTileBox

SpecXYZ == InitXYZ /\ [][NextXYZ]_vars

\* C7: the Web Mercator box of tile (x, y) at zoom z, handed to
\* getTileGridFromBoundingBox or to webMercatorTileBox at zoom z, gives
\* exactly the single-tile grid minX = maxX = x, minY = maxY = y.
C7_XYZRoundTrip ==
    /\ Applied("getTileGridFromBoundingBox") =>
          out = TileGrid(arg.x, arg.y, arg.x, arg.y)
    /\ Applied("webMercatorTileBox") =>
          out = BoundingBoxMinMax(arg.x, arg.x, arg.y, arg.y)

\* the part of C7 that the code satisfies: webMercatorTileBox alone
C7_WebMercatorTileBoxRoundTrip ==
    Applied("webMercatorTileBox") =>
        out = BoundingBoxMinMax(arg.x, arg.x, arg.y, arg.y)

(***************************************************************************)
(* Specification of the zoom-level selection: determineGeoPackageZoomLevel *)
(* applied to pyramids of up to MaxLevels stored zoom levels, whose tile   *)
(* widths grow from the finest level (widths[0]) to the coarsest, and to   *)
(* requested widths at, just inside, just outside and between them.        *)
(***************************************************************************)
\* the tile width of the finest level, in EPSG:3857 units
FinestWidth == (2 * WEB_MERCATOR_HALF_WORLD_WIDTH) \div Pow2(MaxZoom)

\* stored tile widths: exact halvings, and widths a little off them
StoredWidths ==
    UNION {{k * FinestWidth, k * FinestWidth + 1, k * FinestWidth + 3} : k \in {1, 2, 4}}

\* requested widths around every stored width
RequestedWidths ==
    UNION {{k * FinestWidth + e : e \in -3..5} : k \in {1, 2, 4}}
        \cup {FinestWidth \div 2, 3 * FinestWidth, 8 * FinestWidth}

WidthLists ==
    {w \in UNION {[1..n -> StoredWidths] : n \in 1..MaxLevels} :
        \A i \in 1..(Len(w) - 1) : w[i] < w[i + 1]}

SelectInputs ==
    [widths : WidthLists, maxZoom : {MaxZoom}, width : RequestedWidths,
     projection : {"EPSG:3857", "EPSG:4326"}]

\* the storage of a selection input: the widths are in the units of the
\* storage CRS
SelectTileDao(a) ==
    [projection |-> a.projection, maxZoom |-> a.maxZoom,
     widths |-> [i \in 1..Len(a.widths) |->
                    FromWebMercator(<<R(a.widths[i]), R(0)>>, a.projection)[1]]]

\* a requested box of the width asked for, in EPSG:3857
SelectBox(a) ==
    BoundingBox(RSub(R(0), HalfWorld), R(0), RSub(R(a.width), HalfWorld), R(a.width))

InitSelect ==
    /\ fn = "determineGeoPackageZoomLevel"
    /\ arg \in SelectInputs
    /\ out = None
    /\ NoRequest

ApplyDetermineGeoPackageZoomLevel ==
    /\ fn = "determineGeoPackageZoomLevel"
    /\ out = None
    /\ out' = [gpZoom |-> determineGeoPackageZoomLevel(SelectTileDao(arg), SelectBox(arg))]
    /\ UNCHANGED <<fn, arg>>
    /\ UNCHANGED retrieverVars

NextSelect == ApplyDetermineGeoPackageZoomLevel

SpecSelect == InitSelect /\ [][NextSelect]_vars

\* the stored zoom levels of a selection input
SelectZooms(a) == {a.maxZoom - (i - 1) : i \in 1..Len(a.widths)}

\* the stored tile width of zoom level z
SelectWidthOf(a, z) == a.widths[a.maxZoom - z + 1]

\* the requested width is within 0.1% of the stored width w
WithinTolerance(w, width) == 1000 * Abs(width - w) <= w

\* C2 as stated: the result is the largest stored zoom level whose tile
\* width is >= the requested width or within 0.1% of it, and there is no
\* result only when no stored level satisfies either condition.
C2_LargestZoomAtLeastRequested ==
    Applied("determineGeoPackageZoomLevel") =>
        LET ok == {z \in SelectZooms(arg) :
                      \/ SelectWidthOf(arg, z) >= arg.width
                      \/ WithinTolerance(SelectWidthOf(arg, z), arg.width)}
        IN  /\ out.gpZoom = {} <=> ok = {}
            /\ \A z \in out.gpZoom : z \in ok /\ \A y \in ok : y <= z

\* C2 amended: the result is the smallest stored zoom level (the last index
\* of widths) whose tile width is <= the requested width or within 0.1% of
\* it, and there is no result exactly when no stored level satisfies either
\* condition.
C2_SmallestZoomAtMostRequested ==
    Applied("determineGeoPackageZoomLevel") =>
        LET ok == {z \in SelectZooms(arg) :
                      \/ SelectWidthOf(arg, z) <= arg.width
                      \/ WithinTolerance(SelectWidthOf(arg, z), arg.width)}
        IN  /\ out.gpZoom = {} <=> ok = {}
            /\ \A z \in out.gpZoom : z \in ok /\ \A y \in ok : z <= y

\* a stored width just above the requested one, taken for the tolerance,
\* with finer levels below it
C2_Witness ==
    /\ Applied("determineGeoPackageZoomLevel")
    /\ Len(arg.widths) = 2
    /\ arg.widths[1] < arg.width
    /\ arg.widths[2] = arg.width + 1
    /\ out.gpZoom = {arg.maxZoom - 1}

(***************************************************************************)
(* Overlap of two bounding boxes across the antimeridian.                  *)
(***************************************************************************)
\* boundingBox.overlap(boundingBox2, allowEmpty) of the BoundingBox class:
\* x1 = max(minX), y1 = max(minY), x2 = min(maxX), y2 = min(maxY); none if
\* x1 > x2 or y1 > y2, and a degenerate box where the ranges touch
BoundingBoxOverlap(boundingBox, boundingBox2, allowEmpty) ==
    LET x1 == RMax(boundingBox.minLongitude, boundingBox2.minLongitude)
        y1 == RMax(boundingBox.minLatitude, boundingBox2.minLatitude)
        x2 == RMin(boundingBox.maxLongitude, boundingBox2.maxLongitude)
        y2 == RMin(boundingBox.maxLatitude, boundingBox2.maxLatitude)
    IN  IF RLess(x2, x1) \/ RLess(y2, y1) THEN None ELSE BoundingBox(x1, y1, x2, y2)

intersection(boundingBoxA, boundingBoxB) ==
    LET x1 == RMax(boundingBoxA.minLongitude, boundingBoxB.minLongitude)
        y1 == RMax(boundingBoxA.minLatitude, boundingBoxB.minLatitude)
        x2 == RMin(boundingBoxA.maxLongitude, boundingBoxB.maxLongitude)
        y2 == RMin(boundingBoxA.maxLatitude, boundingBoxB.maxLatitude)
    IN  IF RLess(x2, x1) \/ RLess(y2, y1) THEN None ELSE BoundingBoxMinMax(x1, x2, y1, y2)

\* bbox2.setMinLongitude(... + adjustment); bbox2.setMaxLongitude(... + adjustment)
ShiftLongitude(boundingBox, adjustment) ==
    [boundingBox EXCEPT !.minLongitude = RAdd(@, adjustment),
                        !.maxLongitude = RAdd(@, adjustment)]

\* the adjustment overlap computes for the second box
OverlapAdjustment(boundingBox, boundingBox2, maxLongitude) ==
    IF RLess(R(0), maxLongitude)
    THEN IF RLess(boundingBox2.maxLongitude, boundingBox.minLongitude)
         THEN RMul(maxLongitude, R(2))
         ELSE IF RLess(boundingBox.maxLongitude, boundingBox2.minLongitude)
         THEN RMul(maxLongitude, R(-2))
         ELSE R(0)
    ELSE R(0)

\* mutant: the second box is never shifted
overlap_NoAdjustment(boundingBox, boundingBox2, allowEmpty, maxLongitude) ==
    BoundingBoxOverlap(boundingBox, boundingBox2, allowEmpty)

overlap(boundingBox, boundingBox2, allowEmpty, maxLongitude) ==
    LET adjustment == OverlapAdjustment(boundingBox, boundingBox2, maxLongitude)
        bbox2 == IF adjustment # R(0)
                 THEN ShiftLongitude(boundingBox2, adjustment)
                 ELSE boundingBox2
    IN  BoundingBoxOverlap(boundingBox, bbox2, allowEmpty)

\* longitudes either side of the antimeridian, and latitude ranges that
\* overlap, touch and are disjoint
OverlapLongitudes == {-180, -170, 0, 170, 180}

OverlapLatitudes == {-10, 10, 20}

OverlapBoxes ==
    {Degrees(x1, y1, x2, y2) : x1 \in OverlapLongitudes, x2 \in OverlapLongitudes,
                                y1 \in OverlapLatitudes, y2 \in OverlapLatitudes}

OverlapInputs ==
    [boundingBox : {b \in OverlapBoxes : RLeq(b.minLongitude, b.maxLongitude)
                                         /\ RLess(b.minLatitude, b.maxLatitude)},
     boundingBox2 : {b \in OverlapBoxes : RLeq(b.minLongitude, b.maxLongitude)
                                          /\ RLess(b.minLatitude, b.maxLatitude)},
     allowEmpty : BOOLEAN,
     maxLongitude : {R(-180), R(0), R(180)}]

InitOverlap == fn = "overlap" /\ arg \in OverlapInputs /\ out = None /\ NoRequest

ApplyOverlap ==
    /\ fn = "overlap"
    /\ out = None
    /\ out' = [result |-> overlap(arg.boundingBox, arg.boundingBox2,
                                  arg.allowEmpty, arg.maxLongitude)]
    /\ UNCHANGED <<fn, arg>>
    /\ UNCHANGED retrieverVars

NextOverlap == ApplyOverlap

SpecOverlap == InitOverlap /\ [][NextOverlap]_vars

\* the two boxes of the antimeridian example
EastOfDateline == Degrees(170, -10, 180, 10)

WestOfDateline == Degrees(-180, -10, -170, 10)

Finite(r) == [kind |-> "finite", value |-> r]

Infinity(sign) == [kind |-> "inf", sign |-> sign]

NaN == [kind |-> "nan"]

Sign(r) == IF r[1] < 0 THEN -1 ELSE 1

\* x / y
JSDiv(x, y) ==
    IF x.kind = "nan" \/ y.kind = "nan" THEN NaN
    ELSE IF x.kind = "inf"
    THEN IF y.kind = "inf" THEN NaN ELSE Infinity(x.sign * Sign(y.value))
    ELSE IF y.kind = "inf" THEN Finite(R(0))
    ELSE IF y.value = R(0)
    THEN IF x.value = R(0) THEN NaN ELSE Infinity(Sign(x.value))
    ELSE Finite(RDiv(x.value, y.value))

\* x * y
JSMul(x, y) ==
    IF x.kind = "nan" \/ y.kind = "nan" THEN NaN
    ELSE IF x.kind = "inf"
    THEN IF y.kind = "inf" THEN Infinity(x.sign * y.sign)
         ELSE IF y.value = R(0) THEN NaN ELSE Infinity(x.sign * Sign(y.value))
    ELSE IF y.kind = "inf"
    THEN IF x.value = R(0) THEN NaN ELSE Infinity(y.sign * Sign(x.value))
    ELSE Finite(RMul(x.value, y.value))

\* x + y
JSAdd(x, y) ==
    IF x.kind = "nan" \/ y.kind = "nan" THEN NaN
    ELSE IF x.kind = "inf"
    THEN IF y.kind = "inf" /\ y.sign # x.sign THEN NaN ELSE x
    ELSE IF y.kind = "inf" THEN y
    ELSE Finite(RAdd(x.value, y.value))

\* x - y
JSSub(x, y) ==
    JSAdd(x, IF y.kind = "finite" THEN Finite(RSub(R(0), y.value))
             ELSE IF y.kind = "inf" THEN Infinity(-y.sign) ELSE NaN)

getXPixel(width, boundingBox, longitude) ==
    LET boxWidth == JSSub(Finite(boundingBox.maxLongitude), Finite(boundingBox.minLongitude))
        offset == JSSub(longitude, Finite(boundingBox.minLongitude))
        percentage == JSDiv(offset, boxWidth)
    IN  JSMul(percentage, width)

getLongitudeFromPixel(width, boundingBox, tileBoundingBox, pixel) ==
    LET boxWidth == JSSub(Finite(tileBoundingBox.maxLongitude),
                          Finite(tileBoundingBox.minLongitude))
        percentage == JSDiv(pixel, width)
        offset == JSMul(percentage, boxWidth)
    IN  JSAdd(offset, Finite(boundingBox.minLongitude))

\* mutant: the Y axis is not inverted
getYPixel_NotInverted(height, boundingBox, latitude) ==
    LET boxHeight == JSSub(Finite(boundingBox.maxLatitude), Finite(boundingBox.minLatitude))
        offset == JSSub(latitude, Finite(boundingBox.minLatitude))
    IN  JSMul(JSDiv(offset, boxHeight), height)

getYPixel(height, boundingBox, latitude) ==
    LET boxHeight == JSSub(Finite(boundingBox.maxLatitude), Finite(boundingBox.minLatitude))
        offset == JSSub(Finite(boundingBox.maxLatitude), latitude)
        percentage == JSDiv(offset, boxHeight)
    IN  JSMul(percentage, height)

getLatitudeFromPixel(height, boundingBox, tileBoundingBox, pixel) ==
    LET boxHeight == JSSub(Finite(tileBoundingBox.maxLatitude),
                           Finite(tileBoundingBox.minLatitude))
        percentage == JSDiv(pixel, height)
        offset == JSMul(percentage, boxHeight)
    IN  JSSub(Finite(boundingBox.maxLatitude), offset)

\* Math.min and Math.max of two numbers that are not NaN
MathMin(x, y) ==
    IF x.kind = "inf" THEN (IF x.sign < 0 THEN x ELSE y)
    ELSE IF y.kind = "inf" THEN (IF y.sign < 0 THEN y ELSE x)
    ELSE Finite(RMin(x.value, y.value))

MathMax(x, y) ==
    IF x.kind = "inf" THEN (IF x.sign > 0 THEN x ELSE y)
    ELSE IF y.kind = "inf" THEN (IF y.sign > 0 THEN y ELSE x)
    ELSE Finite(RMax(x.value, y.value))

\* Math.round(Math.log(n) / Math.log(2)) for an integer n >= 1: the z with
\* 2^(z - 1/2) <= n < 2^(z + 1/2)
RoundLog2(n) ==
    CHOOSE z \in 0..15 :
        /\ z > 0 => 2 ^ (2 * z - 1) <= n * n
        /\ n * n < 2 ^ (2 * z + 1)

zoomFromTilesPerSide(tilesPerSide_) ==
    IF tilesPerSide_.kind = "inf" THEN tilesPerSide_
    ELSE Finite(R(RoundLog2(tilesPerSide_.value[1])))

\* worldLength / distance, rounded. A distance <= 0 is replaced by
\* Number.MIN_VALUE (2^-1074), and the quotient of the world length by it
\* is beyond the largest double: Infinity
WorldLengthInTiles(distance) ==
    IF RLeq(distance, R(0)) THEN Infinity(1)
    ELSE Finite(R(Round(RDiv(RMul(HalfWorld, R(2)), distance))))

getZoomLevel(webMercatorBoundingBox) ==
    LET longitudeDistance == RSub(webMercatorBoundingBox.maxLongitude,
                                  webMercatorBoundingBox.minLongitude)
        latitudeDistance == RSub(webMercatorBoundingBox.maxLatitude,
                                 webMercatorBoundingBox.minLatitude)
        widthTiles == WorldLengthInTiles(longitudeDistance)
        heightTiles == WorldLengthInTiles(latitudeDistance)
        tilesPerSide_ == MathMax(MathMin(widthTiles, heightTiles), Finite(R(1)))
    IN  zoomFromTilesPerSide(tilesPerSide_)

\* the coordinates of the boxes and points given to the pixel functions,
\* and the raster sizes
PixelCoordinates == {R(-180), R(-45), R(0), <<1, 3>>, R(30), R(180)}

PixelSizes == {R(1), R(3), R(256)}

\* boxes of positive and of zero width and height
PixelRanges ==
    {r \in [min : PixelCoordinates, max : PixelCoordinates] : RLeq(r.min, r.max)}

PixelInputs == [size : PixelSizes, range : PixelRanges, coordinate : PixelCoordinates]

\* the box whose longitude and latitude range is the range given
RangeBox(range) == BoundingBox(range.min, range.min, range.max, range.max)

\* Web Mercator boxes of positive and of zero width and height
ZoomLevelCoordinates ==
    {RMul(HalfWorld, f) : f \in {R(-1), <<-1, 2>>, R(0), <<1, 4>>, R(1)}}

ZoomLevelRanges ==
    {r \in [min : ZoomLevelCoordinates, max : ZoomLevelCoordinates] : RLeq(r.min, r.max)}

ZoomLevelInputs == [longitudes : ZoomLevelRanges, latitudes : ZoomLevelRanges]

InitPixel ==
    /\ \/ fn \in {"getXPixel", "getYPixel"} /\ arg \in PixelInputs
       \/ fn = "getZoomLevel" /\ arg \in ZoomLevelInputs
    /\ out = None
    /\ NoRequest

\* getXPixel, and getLongitudeFromPixel of its result
ApplyGetXPixel ==
    /\ fn = "getXPixel"
    /\ out = None
    /\ LET box == RangeBox(arg.range)
           pixel == getXPixel(Finite(arg.size), box, Finite(arg.coordinate))
       IN  out' = [pixel |-> pixel,
                   back |-> getLongitudeFromPixel(Finite(arg.size), box, box, pixel)]
    /\ UNCHANGED <<fn, arg>>
    /\ UNCHANGED retrieverVars

\* getYPixel, and getLatitudeFromPixel of its result
ApplyGetYPixel ==
    /\ fn = "getYPixel"
    /\ out = None
    /\ LET box == RangeBox(arg.range)
           pixel == getYPixel(Finite(arg.size), box, Finite(arg.coordinate))
       IN  out' = [pixel |-> pixel,
                   back |-> getLatitudeFromPixel(Finite(arg.size), box, box, pixel)]
    /\ UNCHANGED <<fn, arg>>
    /\ UNCHANGED retrieverVars

ApplyGetZoomLevel ==
    /\ fn = "getZoomLevel"
    /\ out = None
    /\ out' = [zoom |-> getZoomLevel(BoundingBox(arg.longitudes.min, arg.latitudes.min,
                                                 arg.longitudes.max, arg.latitudes.max))]
    /\ UNCHANGED <<fn, arg>>
    /\ UNCHANGED retrieverVars

NextPixel == ApplyGetXPixel \/ ApplyGetYPixel \/ ApplyGetZoomLevel

SpecPixel == InitPixel /\ [][NextPixel]_vars

\* C12: for a box of positive width and height and a positive raster size,
\* coordinate -> pixel -> coordinate is the identity on both axes, and the
\* Y axis is inverted: the maximum latitude is pixel 0 and the minimum
\* latitude is pixel height.
C12_PixelRoundTrip ==
    (/\ Applied("getXPixel") \/ Applied("getYPixel")
     /\ RLess(arg.range.min, arg.range.max)) =>
        /\ out.back = Finite(arg.coordinate)
        /\ (fn = "getYPixel" /\ arg.coordinate = arg.range.max) =>
               out.pixel = Finite(R(0))
        /\ (fn = "getYPixel" /\ arg.coordinate = arg.range.min) =>
               out.pixel = Finite(arg.size)
        /\ (fn = "getXPixel" /\ arg.coordinate = arg.range.min) =>
               out.pixel = Finite(R(0))

C12_Witness ==
    /\ Applied("getYPixel")
    /\ arg.range = [min |-> R(-45), max |-> R(30)]
    /\ arg.coordinate = <<1, 3>>
    /\ arg.size = R(256)
    /\ out.back = Finite(<<1, 3>>)
    /\ out.pixel # Finite(R(0))

(***************************************************************************)
(* Tiles per side of the world, in the square and in the asymmetric        *)
(* (WGS84) scheme.                                                         *)
(***************************************************************************)
\* largest zoom level handed to the functions that compute on doubles
\* (Math.pow): their results are exact far beyond it
MaxPowZoom == 28

\* largest zoom level handed to the function that shifts a 32-bit integer
MaxShiftZoom == 33

tilesPerWGS84LatSide(zoom) == tilesPerSide(zoom)

\* mutant: as many columns as rows
tilesPerWGS84LonSide_NotDoubled(zoom) == tilesPerSide(zoom)

tilesPerWGS84LonSide(zoom) == 2 * tilesPerSide(zoom)

TilesPerSideFunctions ==
    {"tilesPerSide", "tilesPerSideWithZoom", "tilesPerWGS84LatSide", "tilesPerWGS84LonSide"}

\* the function named, applied
TilesPerSideOf(name, zoom) ==
    CASE name = "tilesPerSide" -> tilesPerSide(zoom)
      [] name = "tilesPerSideWithZoom" -> tilesPerSideWithZoom(zoom)
      [] name = "tilesPerWGS84LatSide" -> tilesPerWGS84LatSide(zoom)
      [] name = "tilesPerWGS84LonSide" -> tilesPerWGS84LonSide(zoom)

InitTilesPerSide ==
    /\ fn \in TilesPerSideFunctions
    /\ arg \in 0..(IF fn = "tilesPerSideWithZoom" THEN MaxShiftZoom ELSE MaxPowZoom)
    /\ out = None
    /\ NoRequest

ApplyTilesPerSide ==
    /\ fn \in TilesPerSideFunctions
    /\ out = None
    /\ out' = [result |-> TilesPerSideOf(fn, arg)]
    /\ UNCHANGED <<fn, arg>>
    /\ UNCHANGED retrieverVars

NextTilesPerSide == ApplyTilesPerSide

SpecTilesPerSide == InitTilesPerSide /\ [][NextTilesPerSide]_vars

\* the result is 2^zoom: positive, 1 at zoom 0, and twice the result of the
\* zoom level before
IsPowerOfTwoOfZoom(name) ==
    /\ out.result > 0
    /\ arg = 0 => out.result = 1
    /\ arg > 0 => /\ out.result % 2 = 0
                  /\ out.result \div 2 = TilesPerSideOf(name, arg - 1)

\* C13: tilesPerSide and tilesPerSideWithZoom return exactly 2^z for every
\* zoom z >= 0: positive, doubling with each zoom step, without 32-bit
\* wrap-around.
C13_TilesPerSideIsPowerOfTwo ==
    /\ Applied("tilesPerSide") => IsPowerOfTwoOfZoom("tilesPerSide")
    /\ Applied("tilesPerSideWithZoom") => IsPowerOfTwoOfZoom("tilesPerSideWithZoom")

\* the part of C13 that the code satisfies: tilesPerSide at every zoom
\* level, tilesPerSideWithZoom up to zoom 30
C13_PowerOfTwoUpToZoom30 ==
    /\ Applied("tilesPerSide") => IsPowerOfTwoOfZoom("tilesPerSide")
    /\ (Applied("tilesPerSideWithZoom") /\ arg <= 30) =>
           IsPowerOfTwoOfZoom("tilesPerSideWithZoom")

\* C14: tilesPerWGS84LatSide(z) is 2^z and tilesPerWGS84LonSide(z) is twice
\* tilesPerWGS84LatSide(z), at every zoom z.
C14_LonSideIsTwiceLatSide ==
    /\ Applied("tilesPerWGS84LatSide") => IsPowerOfTwoOfZoom("tilesPerWGS84LatSide")
    /\ Applied("tilesPerWGS84LonSide") =>
           /\ out.result = 2 * tilesPerWGS84LatSide(arg)
           /\ arg = 0 => out.result = 2

C14_Witness ==
    /\ Applied("tilesPerWGS84LonSide")
    /\ arg = 3
    /\ out.result = 16

(***************************************************************************)
(* Asymmetric (WGS84) tiling: 2 * 2^zoom columns by 2^zoom rows.           *)
(***************************************************************************)
\* ProjectionConstants.WGS84_HALF_WORLD_LON_WIDTH, in degrees
WGS84_HALF_WORLD_LON_WIDTH == 180

\* ProjectionConstants.WGS84_HALF_WORLD_LAT_HEIGHT, in degrees
WGS84_HALF_WORLD_LAT_HEIGHT == 90

tileSizeLatPerWGS84Side(tilesPerLat) ==
    RDiv(R(2 * WGS84_HALF_WORLD_LAT_HEIGHT), R(tilesPerLat))

tileSizeLonPerWGS84Side(tilesPerLon) ==
    RDiv(R(2 * WGS84_HALF_WORLD_LON_WIDTH), R(tilesPerLon))

\* tempMax % 1 == 0
IsWhole(r) == r[2] = 1

getTileGridWGS84(boundingBox, zoom) ==
    LET tilesPerLat == tilesPerWGS84LatSide(zoom)
        tilesPerLon == tilesPerWGS84LonSide(zoom)
        tileSizeLat == tileSizeLatPerWGS84Side(tilesPerLat)
        tileSizeLon == tileSizeLonPerWGS84Side(tilesPerLon)
        minX == Trunc(RDiv(RAdd(boundingBox.minLongitude, R(WGS84_HALF_WORLD_LON_WIDTH)),
                           tileSizeLon))
        tempMaxX == RDiv(RAdd(boundingBox.maxLongitude, R(WGS84_HALF_WORLD_LON_WIDTH)),
                         tileSizeLon)
        maxX == IF IsWhole(tempMaxX) THEN Trunc(tempMaxX) - 1 ELSE Trunc(tempMaxX)
        minY == Trunc(RDiv(RMul(RSub(boundingBox.maxLatitude, R(WGS84_HALF_WORLD_LAT_HEIGHT)),
                                R(-1)),
                           tileSizeLat))
        tempMaxY == RDiv(RMul(RSub(boundingBox.minLatitude, R(WGS84_HALF_WORLD_LAT_HEIGHT)),
                              R(-1)),
                         tileSizeLat)
        maxY == IF IsWhole(tempMaxY) THEN Trunc(tempMaxY) - 1 ELSE Trunc(tempMaxY)
    IN  TileGrid(minX, minY, Min(maxX, tilesPerLon - 1), Min(maxY, tilesPerLat - 1))

\* the tile indexes come back in a BoundingBox: minLongitude .. maxLongitude
\* are the columns and minLatitude .. maxLatitude the rows
wgs84TileBox(wgs84BoundingBox, zoom) ==
    LET tilesPerSideLat == tilesPerWGS84LatSide(zoom)
        tilesPerSideLon == tilesPerWGS84LonSide(zoom)
        tileSizeLat == tileSizeLatPerWGS84Side(tilesPerSideLat)
        tileSizeLon == tileSizeLonPerWGS84Side(tilesPerSideLon)
        minLonClip == RMax(R(-WGS84_HALF_WORLD_LON_WIDTH), wgs84BoundingBox.minLongitude)
        maxLonClip == RMin(R(WGS84_HALF_WORLD_LON_WIDTH), wgs84BoundingBox.maxLongitude)
        minLatClip == RMax(R(-WGS84_HALF_WORLD_LAT_HEIGHT), wgs84BoundingBox.minLatitude)
        maxLatClip == RMin(R(WGS84_HALF_WORLD_LAT_HEIGHT), wgs84BoundingBox.maxLatitude)
        minX == Floor(RDiv(RAdd(minLonClip, R(WGS84_HALF_WORLD_LON_WIDTH)), tileSizeLon))
        maxX == Max(0, Ceil(RDiv(RAdd(maxLonClip, R(WGS84_HALF_WORLD_LON_WIDTH)),
                                 tileSizeLon)) - 1)
        minY == Floor(RDiv(RSub(R(WGS84_HALF_WORLD_LAT_HEIGHT), maxLatClip), tileSizeLat))
        maxY == Max(0, Ceil(RDiv(RSub(R(WGS84_HALF_WORLD_LAT_HEIGHT), minLatClip),
                                 tileSizeLat)) - 1)
    IN  BoundingBoxMinMax(minX, maxX, minY, maxY)

\* new BoundingBox(point.x, point.y, point.x, point.y)
PointBox(x, y) == BoundingBox(x, y, x, y)

\* points of the world, on tile edges and off them
Wgs84Longitudes == {R(-180), R(-135), R(-90), R(-60), R(0), R(10), R(90), R(180)}

Wgs84Latitudes == {R(-90), R(-45), R(-30), R(0), R(45), R(90)}

Wgs84PointInputs == [x : Wgs84Longitudes, y : Wgs84Latitudes, zoom : Zooms]

InitWgs84 ==
    /\ fn \in {"getTileGridWGS84", "wgs84TileBox"}
    /\ arg \in Wgs84PointInputs
    /\ out = None
    /\ NoRequest

ApplyGetTileGridWGS84 ==
    /\ fn = "getTileGridWGS84"
    /\ out = None
    /\ out' = getTileGridWGS84(PointBox(arg.x, arg.y), arg.zoom)
    /\ UNCHANGED <<fn, arg>>
    /\ UNCHANGED retrieverVars

\* the result of wgs84TileBox read as a tile grid
ApplyWgs84TileBox ==
    /\ fn = "wgs84TileBox"
    /\ out = None
    /\ LET box == wgs84TileBox(PointBox(arg.x, arg.y), arg.zoom)
       IN  out' = TileGridMinMax(box.minLongitude, box.maxLongitude,
                                 box.minLatitude, box.maxLatitude)
    /\ UNCHANGED <<fn, arg>>
    /\ UNCHANGED retrieverVars

NextWgs84 == ApplyGetTileGridWGS84 \/ ApplyWgs84TileBox

SpecWgs84 == InitWgs84 /\ [][NextWgs84]_vars

\* the grid is one tile of the matrix of the zoom level
IsOneTileOfMatrix(grid, zoom) ==
    /\ grid.minX = grid.maxX
    /\ grid.minY = grid.maxY
    /\ 0 <= grid.minX /\ grid.minX <= tilesPerWGS84LonSide(zoom) - 1
    /\ 0 <= grid.minY /\ grid.minY <= tilesPerWGS84LatSide(zoom) - 1

\* C15: in the WGS84 scheme the tile grid of a point of the world, also of
\* a point on a tile edge, is exactly one tile of the matrix: minX = maxX
\* and minY = maxY, both inside the matrix.
C15_PointBelongsToOneTile ==
    out # None => IsOneTileOfMatrix(out, arg.zoom)

\* the point lies on no tile edge of the zoom level
OffTileEdges(x, y, zoom) ==
    /\ ~IsWhole(RDiv(RAdd(x, R(WGS84_HALF_WORLD_LON_WIDTH)),
                     tileSizeLonPerWGS84Side(tilesPerWGS84LonSide(zoom))))
    /\ ~IsWhole(RDiv(RSub(R(WGS84_HALF_WORLD_LAT_HEIGHT), y),
                     tileSizeLatPerWGS84Side(tilesPerWGS84LatSide(zoom))))

\* the part of C15 that the code satisfies: points off the tile edges
C15_PointOffEdgesBelongsToOneTile ==
    (out # None /\ OffTileEdges(arg.x, arg.y, arg.zoom)) =>
        IsOneTileOfMatrix(out, arg.zoom)

(***************************************************************************)
(* Requests outside the stored extent.                                     *)
(***************************************************************************)
\* the activation of getTileWithBounds has computed its tile grid, for a
\* box (in the CRS of the storage) that does not intersect the total box
RequestOutsideTotalBox ==
    /\ call # None
    /\ call.tileGrid # None
    /\ intersection(call.storageBox, tileDao.tileMatrixSetBox) = None

\* the cells of the tile grid that lie inside the matrix
CellsInMatrix(tileGrid, tileMatrix) ==
    {cell \in (0..(tileMatrix.matrix_width - 1)) \X (0..(tileMatrix.matrix_height - 1)) :
        /\ tileGrid.minX <= cell[1] /\ cell[1] <= tileGrid.maxX
        /\ tileGrid.minY <= cell[2] /\ cell[2] <= tileGrid.maxY}

\* C16: when the requested extent, in the CRS of the storage, does not
\* intersect the total bounding box of the tile matrix set, the tile grid
\* handed to the storage query has no cell inside the matrix, no tile is
\* fetched, none is drawn, and the request does not fail because of it.
C16_NoOverlapIsEmptyResult ==
    RequestOutsideTotalBox =>
        /\ CellsInMatrix(call.tileGrid, call.tileMatrix) = {}
        /\ \A i \in Calls("queryByTileGrid") : log[i].tileGrid = call.tileGrid
        /\ tiles = <<>>
        /\ Calls("addTile") = {}
        /\ surface.draws = <<>>
        /\ (pc = "done" /\ outcome.kind = "error") => outcome.source = "storage"

C16_Witness ==
    /\ RequestOutsideTotalBox
    /\ pc = "done"
    /\ outcome = [kind |-> "raster", draws |-> <<>>]
    /\ call.tileGrid.maxX = call.tileMatrix.matrix_width
    /\ Calls("queryByTileGrid") # {}

(***************************************************************************)
(* Bounding boxes as objects.                                              *)
(* A heap is a sequence of boxes; an object is its index in the heap. A    *)
(* call takes the heap and the objects it is given and returns the heap it *)
(* leaves and the object it returns: [heap |-> h, result |-> {} or {o}].   *)
(***************************************************************************)
\* boundingBox.copy(): the heap with a new object equal to the one given;
\* the new object is Len of the new heap
Copy(heap, boundingBox) == Append(heap, heap[boundingBox])

\* new BoundingBox(...): likewise for a box just built
New(heap, box) == Append(heap, box)

Returned(heap, object) == [heap |-> heap, result |-> {object}]

ReturnedNull(heap) == [heap |-> heap, result |-> {}]

\* boundingBox.overlap(boundingBox2, allowEmpty) returns a new instance
CallBoundingBoxOverlap(heap, boundingBox, boundingBox2, allowEmpty) ==
    LET box == BoundingBoxOverlap(heap[boundingBox], heap[boundingBox2], allowEmpty)
    IN  IF box = None THEN ReturnedNull(heap)
        ELSE Returned(New(heap, box), Len(heap) + 1)

\* boundingBox.union(boundingBox2) returns a new instance
CallBoundingBoxUnion(heap, boundingBox, boundingBox2) ==
    LET a == heap[boundingBox]
        b == heap[boundingBox2]
        box == BoundingBox(RMin(a.minLongitude, b.minLongitude),
                           RMin(a.minLatitude, b.minLatitude),
                           RMax(a.maxLongitude, b.maxLongitude),
                           RMax(a.maxLatitude, b.maxLatitude))
    IN  Returned(New(heap, box), Len(heap) + 1)

\* mutant: the second box is adjusted in place, without the copy
CallOverlap_NoCopy(heap, boundingBox, boundingBox2, allowEmpty, maxLongitude) ==
    LET adjustment == OverlapAdjustment(heap[boundingBox], heap[boundingBox2], maxLongitude)
        heap1 == [heap EXCEPT ![boundingBox2] = ShiftLongitude(@, adjustment)]
    IN  CallBoundingBoxOverlap(heap1, boundingBox, boundingBox2, allowEmpty)

CallOverlap(heap, boundingBox, boundingBox2, allowEmpty, maxLongitude) ==
    LET adjustment == OverlapAdjustment(heap[boundingBox], heap[boundingBox2], maxLongitude)
        adjusted == adjustment # R(0)
        heap1 == IF adjusted THEN Copy(heap, boundingBox2) ELSE heap
        bbox2 == IF adjusted THEN Len(heap1) ELSE boundingBox2
        heap2 == IF adjusted
                 THEN [heap1 EXCEPT ![bbox2] = ShiftLongitude(@, adjustment)]
                 ELSE heap1
    IN  CallBoundingBoxOverlap(heap2, boundingBox, bbox2, allowEmpty)

CallUnion(heap, boundingBox, boundingBox2) ==
    CallBoundingBoxUnion(heap, boundingBox, boundingBox2)

CallBoundWebMercatorBoundingBox(heap, boundingBox) ==
    LET heap1 == Copy(heap, boundingBox)
        bounded == Len(heap1)
        heap2 == [heap1 EXCEPT ![bounded].minLongitude = RMax(@, RMul(R(-1), HalfWorld))]
        heap3 == [heap2 EXCEPT ![bounded].maxLongitude = RMin(@, HalfWorld)]
        heap4 == [heap3 EXCEPT ![bounded].minLatitude = RMax(@, RMul(R(-1), HalfWorld))]
        heap5 == [heap4 EXCEPT ![bounded].maxLatitude = RMin(@, HalfWorld)]
    IN  Returned(heap5, bounded)

\* ProjectionConstants.WEB_MERCATOR_MIN_LAT_RANGE and MAX_LAT_RANGE, to
\* four decimal places
WEB_MERCATOR_MIN_LAT_RANGE == Rat(-850511, 10000)

WEB_MERCATOR_MAX_LAT_RANGE == Rat(850511, 10000)

CallBoundDegreesBoundingBoxWithWebMercatorLimits(heap, boundingBox) ==
    LET heap1 == Copy(heap, boundingBox)
        bounded == Len(heap1)
        heap2 == IF RLess(heap1[bounded].minLatitude, WEB_MERCATOR_MIN_LAT_RANGE)
                 THEN [heap1 EXCEPT ![bounded].minLatitude = WEB_MERCATOR_MIN_LAT_RANGE]
                 ELSE heap1
        heap3 == IF RLess(heap2[bounded].maxLatitude, WEB_MERCATOR_MIN_LAT_RANGE)
                 THEN [heap2 EXCEPT ![bounded].maxLatitude = WEB_MERCATOR_MIN_LAT_RANGE]
                 ELSE heap2
        heap4 == IF RLess(WEB_MERCATOR_MAX_LAT_RANGE, heap3[bounded].maxLatitude)
                 THEN [heap3 EXCEPT ![bounded].maxLatitude = WEB_MERCATOR_MAX_LAT_RANGE]
                 ELSE heap3
        heap5 == IF RLess(WEB_MERCATOR_MAX_LAT_RANGE, heap4[bounded].minLatitude)
                 THEN [heap4 EXCEPT ![bounded].minLatitude = WEB_MERCATOR_MAX_LAT_RANGE]
                 ELSE heap4
    IN  Returned(heap5, bounded)

\* tileMatrixSet.getBoundingBox(): a box built from the extent the tile
\* matrix set stores (object 1 of the heap), a new instance on every call
CallTileMatrixSetGetBoundingBox(heap) == Returned(Copy(heap, 1), Len(heap) + 1)

\* GeoPackageTileRetriever.getWebMercatorBoundingBox. this is the retriever:
\* [setWebMercatorBoundingBox, setProjectionBoundingBox |-> {} or {object},
\*  projection, srs]; the result carries the retriever as it is left
CallGetWebMercatorBoundingBox(heap, this) ==
    IF this.setWebMercatorBoundingBox # {}
    THEN [heap |-> heap, result |-> this.setWebMercatorBoundingBox, this |-> this]
    ELSE LET got == CallTileMatrixSetGetBoundingBox(heap)
             box == CHOOSE o \in got.result : TRUE
             heap1 == IF this.srs.organization_coordsys_id = 4326
                         /\ this.srs.organization = "EPSG"
                      THEN [got.heap EXCEPT
                               ![box].minLatitude = RMax(@, Rat(-8505, 100)),
                               ![box].maxLatitude = RMin(@, Rat(8505, 100))]
                      ELSE got.heap
             heap2 == New(heap1, projectBoundingBox(heap1[box], this.projection, "EPSG:3857"))
         IN  [heap |-> heap2, result |-> {Len(heap2)},
              this |-> [this EXCEPT !.setProjectionBoundingBox = {box},
                                    !.setWebMercatorBoundingBox = {Len(heap2)}]]

\* the boxes handed to the bounding functions: inside the limits, across
\* them and beyond them (degrees, or the length unit of Web Mercator)
FrameLongitudes == {-10000, -180, 0, 180, 10000}

FrameLatitudes == {-10000, -90, -86, 0, 86, 90, 10000}

FrameBoxes ==
    {b \in {Degrees(x1, y1, x2, y2) : x1 \in FrameLongitudes, x2 \in FrameLongitudes,
                                      y1 \in FrameLatitudes, y2 \in FrameLatitudes} :
        RLeq(b.minLongitude, b.maxLongitude) /\ RLeq(b.minLatitude, b.maxLatitude)}

\* the tile matrix sets a retriever is built on
FrameRetrievers ==
    [box : {Degrees(-180, -90, 180, 90), Degrees(-180, 0, 0, 90), Degrees(-180, -60, 180, 60)},
     projection : {"EPSG:4326", "EPSG:3857"},
     srs : [organization : {"EPSG", "NONE"}, organization_coordsys_id : {4326, 3857}]]

\* the heap a call starts from: the boxes it is given, in the order of its
\* arguments (for the retriever, the extent the tile matrix set stores)
InitialHeap ==
    CASE fn \in {"overlap", "union"} -> <<arg.boundingBox, arg.boundingBox2>>
      [] fn = "getWebMercatorBoundingBox" -> <<arg.box>>
      [] OTHER -> <<arg>>

InitFrame ==
    /\ \/ fn \in {"overlap", "union"} /\ arg \in OverlapInputs
       \/ /\ fn \in {"boundWebMercatorBoundingBox",
                      "boundDegreesBoundingBoxWithWebMercatorLimits"}
          /\ arg \in FrameBoxes
       \/ fn = "getWebMercatorBoundingBox" /\ arg \in FrameRetrievers
    /\ out = None
    /\ NoRequest

FrameOverlap ==
    /\ fn = "overlap"
    /\ out = None
    /\ out' = CallOverlap(InitialHeap, 1, 2, arg.allowEmpty, arg.maxLongitude)
    /\ UNCHANGED <<fn, arg>>
    /\ UNCHANGED retrieverVars

FrameUnion ==
    /\ fn = "union"
    /\ out = None
    /\ out' = CallUnion(InitialHeap, 1, 2)
    /\ UNCHANGED <<fn, arg>>
    /\ UNCHANGED retrieverVars

FrameBoundWebMercatorBoundingBox ==
    /\ fn = "boundWebMercatorBoundingBox"
    /\ out = None
    /\ out' = CallBoundWebMercatorBoundingBox(InitialHeap, 1)
    /\ UNCHANGED <<fn, arg>>
    /\ UNCHANGED retrieverVars

FrameBoundDegreesBoundingBoxWithWebMercatorLimits ==
    /\ fn = "boundDegreesBoundingBoxWithWebMercatorLimits"
    /\ out = None
    /\ out' = CallBoundDegreesBoundingBoxWithWebMercatorLimits(InitialHeap, 1)
    /\ UNCHANGED <<fn, arg>>
    /\ UNCHANGED retrieverVars

\* the retriever after its constructor
NewRetriever(projection, srs) ==
    [setWebMercatorBoundingBox |-> {}, setProjectionBoundingBox |-> {},
     projection |-> projection, srs |-> srs, calls |-> 0]

\* the first call on a new retriever, and a second call on the same one
FrameGetWebMercatorBoundingBox ==
    /\ fn = "getWebMercatorBoundingBox"
    /\ LET heap == IF out = None THEN InitialHeap ELSE out.heap
           this == IF out = None THEN NewRetriever(arg.projection, arg.srs) ELSE out.this
       IN  /\ this.calls < 2
           /\ out' = CallGetWebMercatorBoundingBox(
                          heap, [this EXCEPT !.calls = @ + 1])
    /\ UNCHANGED <<fn, arg>>
    /\ UNCHANGED retrieverVars

NextFrame ==
    \/ FrameOverlap
    \/ FrameUnion
    \/ FrameBoundWebMercatorBoundingBox
    \/ FrameBoundDegreesBoundingBoxWithWebMercatorLimits
    \/ FrameGetWebMercatorBoundingBox

SpecFrame == InitFrame /\ [][NextFrame]_vars

\* C17: overlap, union, boundWebMercatorBoundingBox and
\* boundDegreesBoundingBoxWithWebMercatorLimits leave the boxes they are
\* given unchanged, and getWebMercatorBoundingBox leaves the box the tile
\* matrix set stores unchanged, also when it clamps the latitudes of an
\* EPSG:4326 pyramid to [-85.05, 85.05].
C17_ArgumentsNotMutated ==
    out # None =>
        \A o \in 1..Len(InitialHeap) : out.heap[o] = InitialHeap[o]

C17_Witness ==
    /\ fn = "getWebMercatorBoundingBox"
    /\ out # None
    /\ arg.box = Degrees(-180, -90, 180, 90)
    /\ arg.srs = [organization |-> "EPSG", organization_coordsys_id |-> 4326]
    /\ out.this.calls = 2
    /\ out.this.setProjectionBoundingBox = {2}
    /\ out.heap[2].minLatitude = Rat(-8505, 100)
    /\ out.heap[1].minLatitude = R(-90)

(***************************************************************************)
(* What a request returns.                                                 *)
(***************************************************************************)
\* getTile has resolved with a result
GetTileReturned ==
    /\ pc = "done"
    /\ req.op = "getTile"
    /\ outcome.kind \notin {"error", "empty"}

\* exactly one tile was fetched, and it has the extent of the request and
\* the pixel size of the output
OneMatchingTile ==
    /\ Len(tiles) = 1
    /\ tiles[1].data \in ExactTiles
    /\ call.tileMatrix.tile_width = OUTPUT_WIDTH
    /\ call.tileMatrix.tile_height = OUTPUT_HEIGHT

\* C18: when a raw-tile passthrough is requested and exactly one stored
\* tile of matching resolution and extent is found, the request returns the
\* stored bytes of that tile unmodified; in every other case it returns the
\* composited, encoded raster.
C18_RawTilePassthrough ==
    GetTileReturned =>
        IF req.passthrough /\ OneMatchingTile
        THEN outcome = [kind |-> "raw", data |-> tiles[1].data]
        ELSE outcome.kind = "raster"

\* what the code does in the case of C18: every result of getTile is the
\* encoding of the surface after the draws of all the tiles fetched
C18_AlwaysComposited ==
    GetTileReturned =>
        /\ outcome.kind = "raster"
        /\ Len(outcome.draws) = Len(tiles)
        /\ Calls("getCompleteTile") # {}

\* the number is neither an infinity nor NaN
IsFinite(x) == x.kind = "finite"

\* C19: for a box with maxX = minX or maxY = minY, getXPixel and getYPixel
\* return a finite pixel, and getZoomLevel returns a finite zoom level >= 0:
\* no infinity and no NaN comes out of a degenerate range.
C19_DegenerateRangeIsFinite ==
    /\ ((Applied("getXPixel") \/ Applied("getYPixel")) /\ arg.range.min = arg.range.max) =>
           IsFinite(out.pixel)
    /\ (/\ Applied("getZoomLevel")
        /\ \/ arg.longitudes.min = arg.longitudes.max
           \/ arg.latitudes.min = arg.latitudes.max) =>
           IsFinite(out.zoom) /\ RLeq(R(0), out.zoom.value)

\* the part of C19 that the code satisfies: getZoomLevel of a box that is
\* degenerate on one axis only
C19_ZoomLevelOfLineIsFinite ==
    (/\ Applied("getZoomLevel")
     /\ (arg.longitudes.min = arg.longitudes.max) # (arg.latitudes.min = arg.latitudes.max)) =>
        IsFinite(out.zoom) /\ RLeq(R(0), out.zoom.value)

\* what the code returns for a point box
C19_ZoomLevelOfPointIsInfinite ==
    (/\ Applied("getZoomLevel")
     /\ arg.longitudes.min = arg.longitudes.max
     /\ arg.latitudes.min = arg.latitudes.max) =>
        out.zoom = Infinity(1)

(***************************************************************************)
(* The tile column of a longitude in a tile matrix.                        *)
(***************************************************************************)
\* widest tile matrix handed to the tile-column functions
MaxMatrixWidth == 4

getTileColumn(totalBox, matrixWidth, longitude) ==
    LET minX == totalBox.minLongitude
        maxX == totalBox.maxLongitude
    IN  IF RLess(longitude, minX) THEN -1
        ELSE IF RLeq(maxX, longitude) THEN matrixWidth
        ELSE LET matrixWidthMeters == RSub(totalBox.maxLongitude, totalBox.minLongitude)
                 tileWidth == RDiv(matrixWidthMeters, R(matrixWidth))
             IN  Round(RDiv(RSub(longitude, minX), tileWidth))

\* total boxes of positive width, and longitudes every 15 degrees from
\* beyond their minimum to beyond their maximum
ColumnTotalBoxes == {Degrees(-180, -90, 180, 90), Degrees(-180, 0, 0, 90), Degrees(0, -90, 180, 0)}

ColumnLongitudes == {R(15 * k) : k \in (-13)..13}

ColumnInputs ==
    [totalBox : ColumnTotalBoxes, matrixWidth : 1..MaxMatrixWidth,
     longitude : ColumnLongitudes]

InitColumn ==
    /\ fn \in {"getTileColumn", "getTileColumnWithTotalBoundingBox"}
    /\ arg \in ColumnInputs
    /\ out = None
    /\ NoRequest

ApplyGetTileColumn ==
    /\ fn = "getTileColumn"
    /\ out = None
    /\ out' = [tileId |-> getTileColumn(arg.totalBox, arg.matrixWidth, arg.longitude)]
    /\ UNCHANGED <<fn, arg>>
    /\ UNCHANGED retrieverVars

ApplyGetTileColumnWithTotalBoundingBox ==
    /\ fn = "getTileColumnWithTotalBoundingBox"
    /\ out = None
    /\ out' = [tileId |-> getTileColumnWithTotalBoundingBox(arg.totalBox, arg.matrixWidth,
                                                            arg.longitude)]
    /\ UNCHANGED <<fn, arg>>
    /\ UNCHANGED retrieverVars

NextColumn == ApplyGetTileColumn \/ ApplyGetTileColumnWithTotalBoundingBox

SpecColumn == InitColumn /\ [][NextColumn]_vars

\* the column is the one the claim states: -1 west of the total box,
\* matrixWidth at or east of its maximum, and inside it the c of
\* [0, matrixWidth - 1] with minX + c * tileWidth <= longitude
\* < minX + (c + 1) * tileWidth
IsColumnOfLongitude(tileId) ==
    LET minX == arg.totalBox.minLongitude
        maxX == arg.totalBox.maxLongitude
        tileWidth == RDiv(RSub(maxX, minX), R(arg.matrixWidth))
    IN  IF RLess(arg.longitude, minX) THEN tileId = -1
        ELSE IF RLeq(maxX, arg.longitude) THEN tileId = arg.matrixWidth
        ELSE /\ 0 <= tileId /\ tileId <= arg.matrixWidth - 1
             /\ RLeq(RAdd(minX, RMul(R(tileId), tileWidth)), arg.longitude)
             /\ RLess(arg.longitude, RAdd(minX, RMul(R(tileId + 1), tileWidth)))

\* C20: getTileColumn and getTileColumnWithTotalBoundingBox return -1 for a
\* longitude below totalBox.minX, matrixWidth for one at or above
\* totalBox.maxX, and otherwise floor((longitude - minX) / tileWidth), which
\* lies in [0, matrixWidth - 1]; so both return the same column.
C20_TileColumn ==
    out # None => IsColumnOfLongitude(out.tileId)

\* the part of C20 that the code satisfies: getTileColumnWithTotalBoundingBox
C20_TileColumnWithTotalBoundingBox ==
    Applied("getTileColumnWithTotalBoundingBox") => IsColumnOfLongitude(out.tileId)

(***************************************************************************)
(* The tile row of a latitude in a tile matrix.                            *)
(***************************************************************************)
\* tallest tile matrix handed to the tile-row functions
MaxMatrixHeight == 4

getTileRow(totalBox, matrixHeight, latitude) ==
    LET minY == totalBox.minLatitude
        maxY == totalBox.maxLatitude
    IN  IF RLeq(latitude, minY) THEN matrixHeight
        ELSE IF RLess(maxY, latitude) THEN -1
        ELSE LET matrixHeightMeters == RSub(totalBox.maxLatitude, totalBox.minLatitude)
                 tileHeight == RDiv(matrixHeightMeters, R(matrixHeight))
             IN  Round(RDiv(RSub(maxY, latitude), tileHeight))

\* total boxes of positive height, and latitudes every 15 degrees from
\* beyond their minimum to beyond their maximum
RowTotalBoxes == {Degrees(-180, -90, 180, 90), Degrees(-180, 0, 0, 90), Degrees(0, -90, 180, 0)}

RowLatitudes == {R(15 * k) : k \in (-7)..7}

RowInputs ==
    [totalBox : RowTotalBoxes, matrixHeight : 1..MaxMatrixHeight, latitude : RowLatitudes]

InitRow ==
    /\ fn \in {"getTileRow", "getRowWithTotalBoundingBox"}
    /\ arg \in RowInputs
    /\ out = None
    /\ NoRequest

ApplyGetTileRow ==
    /\ fn = "getTileRow"
    /\ out = None
    /\ out' = [tileId |-> getTileRow(arg.totalBox, arg.matrixHeight, arg.latitude)]
    /\ UNCHANGED <<fn, arg>>
    /\ UNCHANGED retrieverVars

ApplyGetRowWithTotalBoundingBox ==
    /\ fn = "getRowWithTotalBoundingBox"
    /\ out = None
    /\ out' = [tileId |-> getRowWithTotalBoundingBox(arg.totalBox, arg.matrixHeight, arg.latitude)]
    /\ UNCHANGED <<fn, arg>>
    /\ UNCHANGED retrieverVars

NextRow == ApplyGetTileRow \/ ApplyGetRowWithTotalBoundingBox

SpecRow == InitRow /\ [][NextRow]_vars

\* tileId is the floor of (maxY - latitude) / tileHeight
IsFloorOfRow(tileId) ==
    LET minY == arg.totalBox.minLatitude
        maxY == arg.totalBox.maxLatitude
        tileHeight == RDiv(RSub(maxY, minY), R(arg.matrixHeight))
    IN  /\ RLeq(RMul(R(tileId), tileHeight), RSub(maxY, arg.latitude))
        /\ RLess(RSub(maxY, arg.latitude), RMul(R(tileId + 1), tileHeight))

\* the row is the one the claim states: -1 at or above the top edge,
\* matrixHeight below the bottom edge, and between them the floor of
\* (maxY - latitude) / tileHeight, inside [0, matrixHeight - 1]
IsRowOfLatitude(tileId) ==
    IF RLeq(arg.totalBox.maxLatitude, arg.latitude) THEN tileId = -1
    ELSE IF RLess(arg.latitude, arg.totalBox.minLatitude) THEN tileId = arg.matrixHeight
    ELSE /\ 0 <= tileId /\ tileId <= arg.matrixHeight - 1
         /\ IsFloorOfRow(tileId)

\* C21: getTileRow and getRowWithTotalBoundingBox return -1 for a latitude
\* at or above totalBox.maxY, matrixHeight for one below totalBox.minY, and
\* otherwise floor((maxY - latitude) / tileHeight), which lies in
\* [0, matrixHeight - 1]; so both return the same row, on the edges too.
C21_TileRow ==
    out # None => IsRowOfLatitude(out.tileId)

\* the part of C21 that the code satisfies: getRowWithTotalBoundingBox has
\* the stated guards and takes the floor, which is a row of the matrix for
\* every latitude off the bottom edge
C21_RowWithTotalBoundingBoxOffBottomEdge ==
    Applied("getRowWithTotalBoundingBox") /\ arg.latitude # arg.totalBox.minLatitude
        => IsRowOfLatitude(out.tileId)

\* on the bottom edge the floor is matrixHeight, and that is what
\* getRowWithTotalBoundingBox returns
C21_RowWithTotalBoundingBoxOnBottomEdge ==
    Applied("getRowWithTotalBoundingBox") /\ arg.latitude = arg.totalBox.minLatitude
        => out.tileId = arg.matrixHeight /\ IsFloorOfRow(out.tileId)

(***************************************************************************)
(* The tile grid of a bounding box in a tile matrix.                       *)
(***************************************************************************)
getTileGrid(totalBox, matrixWidth, matrixHeight, boundingBox) ==
    LET minColumn0 == getTileColumn(totalBox, matrixWidth, boundingBox.minLongitude)
        maxColumn0 == getTileColumn(totalBox, matrixWidth, boundingBox.maxLongitude)
        clampColumns == minColumn0 < matrixWidth /\ maxColumn0 >= 0
        minColumn == IF clampColumns /\ minColumn0 < 0 THEN 0 ELSE minColumn0
        maxColumn == IF clampColumns /\ maxColumn0 >= matrixWidth
                     THEN matrixWidth - 1 ELSE maxColumn0
        maxRow0 == getTileRow(totalBox, matrixHeight, boundingBox.minLatitude)
        minRow0 == getTileRow(totalBox, matrixHeight, boundingBox.maxLatitude)
        clampRows == minRow0 < matrixHeight /\ maxRow0 >= 0
        minRow == IF clampRows /\ minRow0 < 0 THEN 0 ELSE minRow0
        maxRow == IF clampRows /\ maxRow0 >= matrixHeight
                  THEN matrixHeight - 1 ELSE maxRow0
    IN  TileGrid(minColumn, minRow, maxColumn, maxRow)

\* request boxes with bounds every 45 degrees, from beyond the total box on
\* one side to beyond it on the other
GridLongitudes == {R(45 * k) : k \in (-5)..5}

GridLatitudes == {R(45 * k) : k \in (-3)..3}

GridBoxes ==
    {b \in [minLongitude : GridLongitudes, minLatitude : GridLatitudes,
            maxLongitude : GridLongitudes, maxLatitude : GridLatitudes] :
        RLess(b.minLongitude, b.maxLongitude) /\ RLess(b.minLatitude, b.maxLatitude)}

GridInputs ==
    [totalBox : ColumnTotalBoxes, matrixWidth : 1..MaxMatrixWidth,
     matrixHeight : 1..MaxMatrixHeight, boundingBox : GridBoxes]

InitGrid ==
    /\ fn \in {"getTileGrid", "getTileGridWithTotalBoundingBox"}
    /\ arg \in GridInputs
    /\ out = None
    /\ NoRequest

ApplyGetTileGrid ==
    /\ fn = "getTileGrid"
    /\ out = None
    /\ out' = getTileGrid(arg.totalBox, arg.matrixWidth, arg.matrixHeight, arg.boundingBox)
    /\ UNCHANGED <<fn, arg>>
    /\ UNCHANGED retrieverVars

ApplyGetTileGridWithTotalBoundingBox ==
    /\ fn = "getTileGridWithTotalBoundingBox"
    /\ out = None
    /\ out' = getTileGridWithTotalBoundingBox(arg.totalBox, arg.matrixWidth, arg.matrixHeight,
                                              arg.boundingBox)
    /\ UNCHANGED <<fn, arg>>
    /\ UNCHANGED retrieverVars

NextGrid == ApplyGetTileGrid \/ ApplyGetTileGridWithTotalBoundingBox

SpecGrid == InitGrid /\ [][NextGrid]_vars

\* the part of the requested box inside the total box
GridOverlap ==
    [minLongitude |-> RMax(arg.boundingBox.minLongitude, arg.totalBox.minLongitude),
     minLatitude |-> RMax(arg.boundingBox.minLatitude, arg.totalBox.minLatitude),
     maxLongitude |-> RMin(arg.boundingBox.maxLongitude, arg.totalBox.maxLongitude),
     maxLatitude |-> RMin(arg.boundingBox.maxLatitude, arg.totalBox.maxLatitude)]

OverlapsWithPositiveExtent ==
    /\ RLess(GridOverlap.minLongitude, GridOverlap.maxLongitude)
    /\ RLess(GridOverlap.minLatitude, GridOverlap.maxLatitude)

\* points of the overlap: its corners, the middles of its edges and its centre
GridOverlapPoints ==
    LET Middle(a, b) == RDiv(RAdd(a, b), R(2))
        o == GridOverlap
    IN  {<<x, y>> : x \in {o.minLongitude, Middle(o.minLongitude, o.maxLongitude),
                           o.maxLongitude},
                    y \in {o.minLatitude, Middle(o.minLatitude, o.maxLatitude),
                           o.maxLatitude}}

\* the tile of the matrix that holds a point, None for a point on the east
\* or south edge of the total box, which starts a tile beyond the matrix
TileOfPoint(p) ==
    LET tileWidth == RDiv(RSub(arg.totalBox.maxLongitude, arg.totalBox.minLongitude),
                          R(arg.matrixWidth))
        tileHeight == RDiv(RSub(arg.totalBox.maxLatitude, arg.totalBox.minLatitude),
                           R(arg.matrixHeight))
        column == Floor(RDiv(RSub(p[1], arg.totalBox.minLongitude), tileWidth))
        row == Floor(RDiv(RSub(arg.totalBox.maxLatitude, p[2]), tileHeight))
    IN  IF column \in 0..(arg.matrixWidth - 1) /\ row \in 0..(arg.matrixHeight - 1)
        THEN [column |-> column, row |-> row]
        ELSE None

IsGridOfOverlap(grid) ==
    /\ 0 <= grid.minX /\ grid.minX <= grid.maxX /\ grid.maxX <= arg.matrixWidth - 1
    /\ 0 <= grid.minY /\ grid.minY <= grid.maxY /\ grid.maxY <= arg.matrixHeight - 1
    /\ \A p \in GridOverlapPoints :
          TileOfPoint(p) # None =>
              /\ grid.minX <= TileOfPoint(p).column /\ TileOfPoint(p).column <= grid.maxX
              /\ grid.minY <= TileOfPoint(p).row /\ TileOfPoint(p).row <= grid.maxY

\* C22: when the requested box overlaps the total box with positive extent on
\* both axes, the grid of getTileGrid and of getTileGridWithTotalBoundingBox
\* has 0 <= minColumn <= maxColumn <= matrixWidth - 1 and
\* 0 <= minRow <= maxRow <= matrixHeight - 1, and holds the tile of every
\* point of the overlap.
C22_TileGridInMatrix ==
    out # None /\ OverlapsWithPositiveExtent => IsGridOfOverlap(out)

\* the part of C22 that the code satisfies: getTileGridWithTotalBoundingBox
C22_TileGridWithTotalBoundingBoxInMatrix ==
    Applied("getTileGridWithTotalBoundingBox") /\ OverlapsWithPositiveExtent
        => IsGridOfOverlap(out)

(***************************************************************************)
(* The Web Mercator box of an XYZ tile, for columns and rows inside and    *)
(* outside the tile matrix of the zoom level, with and without a buffer.   *)
(***************************************************************************)
\* pixel buffers around a tile of TILE_PIXELS pixels: none, a quarter of a
\* tile, a whole tile, two tiles
FromXYZOptions ==
    {None} \cup [tileSize : {TILE_PIXELS}, buffer : {0, TILE_PIXELS \div 4, TILE_PIXELS,
                                                     2 * TILE_PIXELS}]

FromXYZInputs ==
    UNION {[x : (-Pow2(z) - 1)..(2 * Pow2(z)), y : (-2)..(Pow2(z) + 1), zoom : {z},
            options : FromXYZOptions] : z \in Zooms}

InitFromXYZ ==
    /\ fn = "getWebMercatorBoundingBoxFromXYZ"
    /\ arg \in FromXYZInputs
    /\ out = None
    /\ NoRequest

ApplyGetWebMercatorBoundingBoxFromXYZ ==
    /\ fn = "getWebMercatorBoundingBoxFromXYZ"
    /\ out = None
    /\ out' = getWebMercatorBoundingBoxFromXYZ(arg.x, arg.y, arg.zoom, arg.options)
    /\ UNCHANGED <<fn, arg>>
    /\ UNCHANGED retrieverVars

NextFromXYZ == ApplyGetWebMercatorBoundingBoxFromXYZ

SpecFromXYZ == InitFromXYZ /\ [][NextFromXYZ]_vars

InWorld(v) == RLeq(RMul(R(-1), HalfWorld), v) /\ RLeq(v, HalfWorld)

IsBoxInWorld(box) ==
    /\ InWorld(box.minLongitude) /\ InWorld(box.maxLongitude)
    /\ InWorld(box.minLatitude) /\ InWorld(box.maxLatitude)
    /\ RLeq(box.minLongitude, box.maxLongitude)
    /\ RLeq(box.minLatitude, box.maxLatitude)

\* C23: for every x, y, zoom >= 0 and optional pixel buffer, the four bounds
\* of the box of getWebMercatorBoundingBoxFromXYZ lie within
\* [-worldHalfWidth, worldHalfWidth] and min <= max on each axis, also for a
\* row y outside [0, 2^zoom - 1] and for a buffer that passes the world edge.
C23_FromXYZBoxInWorld ==
    Applied("getWebMercatorBoundingBoxFromXYZ") => IsBoxInWorld(out)

\* the part of C23 that the code satisfies: rows of the tile matrix
C23_FromXYZBoxOfMatrixRowInWorld ==
    Applied("getWebMercatorBoundingBoxFromXYZ") /\ arg.y \in 0..(Pow2(arg.zoom) - 1)
        => IsBoxInWorld(out)

(***************************************************************************)
(* The square-scheme tile grid of Web Mercator boxes inside, touching,     *)
(* crossing and outside the world extent.                                  *)
(***************************************************************************)
\* bounds every quarter of the half world width, out to one and a half
\* times the half world width on both sides
TileBoxCoordinates == {RDiv(RMul(R(k), HalfWorld), R(4)) : k \in (-6)..6}

TileBoxBoxes ==
    {b \in [minLongitude : TileBoxCoordinates, minLatitude : TileBoxCoordinates,
            maxLongitude : TileBoxCoordinates, maxLatitude : TileBoxCoordinates] :
        RLeq(b.minLongitude, b.maxLongitude) /\ RLeq(b.minLatitude, b.maxLatitude)}

TileBoxInputs == [box : TileBoxBoxes, zoom : Zooms]

InitTileBox ==
    /\ fn \in {"getTileGridFromBoundingBox", "webMercatorTileBox"}
    /\ arg \in TileBoxInputs
    /\ out = None
    /\ NoRequest

ApplyGetTileGridFromBoundingBoxToBox ==
    /\ fn = "getTileGridFromBoundingBox"
    /\ out = None
    /\ out' = getTileGridFromBoundingBox(arg.box, arg.zoom)
    /\ UNCHANGED <<fn, arg>>
    /\ UNCHANGED retrieverVars

ApplyWebMercatorTileBoxToBox ==
    /\ fn = "webMercatorTileBox"
    /\ out = None
    /\ out' = webMercatorTileBox(arg.box, arg.zoom)
    /\ UNCHANGED <<fn, arg>>
    /\ UNCHANGED retrieverVars

NextTileBox == ApplyGetTileGridFromBoundingBoxToBox \/ ApplyWebMercatorTileBoxToBox

SpecTileBox == InitTileBox /\ [][NextTileBox]_vars

\* the indices of a result: a TileGrid from getTileGridFromBoundingBox, a
\* BoundingBox that holds tile indices from webMercatorTileBox
TileIndicesOf(result) ==
    IF fn = "webMercatorTileBox"
    THEN TileGrid(result.minLongitude, result.minLatitude, result.maxLongitude,
                  result.maxLatitude)
    ELSE result

IsGridOfZoom(grid, zoom) ==
    /\ 0 <= grid.minX /\ grid.minX <= grid.maxX /\ grid.maxX <= Pow2(zoom) - 1
    /\ 0 <= grid.minY /\ grid.minY <= grid.maxY /\ grid.maxY <= Pow2(zoom) - 1

\* C24: for every Web Mercator box with minX <= maxX and minY <= maxY, also
\* one touching, crossing or outside the world extent, and every zoom z, the
\* grid of webMercatorTileBox and of getTileGridFromBoundingBox has its four
\* indices within [0, 2^z - 1] and min <= max on each axis.
C24_SquareGridInMatrix ==
    out # None => IsGridOfZoom(TileIndicesOf(out), arg.zoom)

\* the box reaches into the world with positive width and height
ReachesIntoWorld(box) ==
    /\ RLess(RMax(box.minLongitude, RMul(R(-1), HalfWorld)), RMin(box.maxLongitude, HalfWorld))
    /\ RLess(RMax(box.minLatitude, RMul(R(-1), HalfWorld)), RMin(box.maxLatitude, HalfWorld))

\* the part of C24 that the code satisfies: webMercatorTileBox, for boxes
\* that share a positive area with the world
C24_WebMercatorTileBoxInMatrix ==
    Applied("webMercatorTileBox") /\ ReachesIntoWorld(arg.box)
        => IsGridOfZoom(TileIndicesOf(out), arg.zoom)

(***************************************************************************)
(* The placement of a tile in the output raster.                           *)
(***************************************************************************)
PlaceLongitudes == {R(-10), R(0), R(10), R(30)}

PlaceLatitudes == {R(-5), R(0), R(5), R(15)}

\* tile boxes and request boxes of positive width and height
PlaceBoxes ==
    {b \in [minLongitude : PlaceLongitudes, minLatitude : PlaceLatitudes,
            maxLongitude : PlaceLongitudes, maxLatitude : PlaceLatitudes] :
        RLess(b.minLongitude, b.maxLongitude) /\ RLess(b.minLatitude, b.maxLatitude)}

\* tile sizes and output sizes in pixels, as <<height, width>>
PlaceSizes == {<<OUTPUT_HEIGHT, OUTPUT_WIDTH>>, <<OUTPUT_HEIGHT, 2 * OUTPUT_WIDTH>>}

PlaceInputs ==
    [geoPackageTileBoundingBox : PlaceBoxes, tileSize : PlaceSizes,
     totalBoundingBox : PlaceBoxes, totalSize : PlaceSizes]

InitPlace ==
    /\ fn = "determinePositionAndScale"
    /\ arg \in PlaceInputs
    /\ out = None
    /\ NoRequest

ApplyDeterminePositionAndScale ==
    /\ fn = "determinePositionAndScale"
    /\ out = None
    /\ out' = determinePositionAndScale(arg.geoPackageTileBoundingBox, arg.tileSize[1],
                                        arg.tileSize[2], arg.totalBoundingBox,
                                        arg.totalSize[1], arg.totalSize[2])
    /\ UNCHANGED <<fn, arg>>
    /\ UNCHANGED retrieverVars

NextPlace == ApplyDeterminePositionAndScale

SpecPlace == InitPlace /\ [][NextPlace]_vars

\* the tile of the same size next to a tile on its east side
EastNeighbour(tile) ==
    [tile EXCEPT !.minLongitude = tile.maxLongitude,
                 !.maxLongitude = RAdd(tile.maxLongitude,
                                       RSub(tile.maxLongitude, tile.minLongitude))]

\* C25: for a tile box T, a request box R of positive width and height and an
\* output of W x H pixels, determinePositionAndScale gives
\* dx = (T.minX - R.minX) / R.width * W, dy = (R.maxY - T.maxY) / R.height * H,
\* dWidth = T.width / R.width * W, dHeight = T.height / R.height * H, the
\* source rectangle is the full tile, and the tile to the east starts at
\* dx + dWidth.
C25_ProportionalPlacement ==
    Applied("determinePositionAndScale") =>
        LET T == arg.geoPackageTileBoundingBox
            Rq == arg.totalBoundingBox
            H == R(arg.totalSize[1])
            W == R(arg.totalSize[2])
            width == RSub(Rq.maxLongitude, Rq.minLongitude)
            height == RSub(Rq.maxLatitude, Rq.minLatitude)
            east == determinePositionAndScale(EastNeighbour(T), arg.tileSize[1],
                                              arg.tileSize[2], Rq, arg.totalSize[1],
                                              arg.totalSize[2])
        IN  /\ out.dx = RMul(RDiv(RSub(T.minLongitude, Rq.minLongitude), width), W)
            /\ out.dy = RMul(RDiv(RSub(Rq.maxLatitude, T.maxLatitude), height), H)
            /\ out.dWidth = RMul(RDiv(RSub(T.maxLongitude, T.minLongitude), width), W)
            /\ out.dHeight = RMul(RDiv(RSub(T.maxLatitude, T.minLatitude), height), H)
            /\ out.sx = R(0) /\ out.sy = R(0)
            /\ out.sWidth = R(arg.tileSize[2]) /\ out.sHeight = R(arg.tileSize[1])
            /\ east.dx = RAdd(out.dx, out.dWidth)

\* a tile that starts west of the request box and above its bottom edge, of
\* another size than the request box, has been placed in an output that is
\* wider than it is high
C25_Witness ==
    /\ Applied("determinePositionAndScale")
    /\ RLess(arg.geoPackageTileBoundingBox.minLongitude, arg.totalBoundingBox.minLongitude)
    /\ RLess(arg.totalBoundingBox.minLatitude, arg.geoPackageTileBoundingBox.minLatitude)
    /\ RLess(arg.geoPackageTileBoundingBox.maxLatitude, arg.totalBoundingBox.maxLatitude)
    /\ arg.totalSize[2] # arg.totalSize[1]
    /\ RLess(out.dx, R(0))
    /\ RLess(R(0), out.dy)

(***************************************************************************)
(* Whether a point is in a bounding box.                                   *)
(***************************************************************************)
\* an optional number: the default null of a parameter left out, or a number
Null == [null |-> TRUE]

Number(r) == [number |-> r]

\* the number a relational operator takes for its operand: null is 0
ToNumber(v) == IF v = Null THEN R(0) ELSE v.number

\* mutant: the world's maximum longitude is not handed on to overlap
isPointInBoundingBox_NoWrap(point, boundingBox, maxLongitude) ==
    overlap(boundingBox, BoundingBox(point.x, point.y, point.x, point.y), TRUE, R(0)) # None

isPointInBoundingBox(point, boundingBox, maxLongitude) ==
    LET pointBoundingbox == BoundingBox(point.x, point.y, point.x, point.y)
        overlap_ == overlap(boundingBox, pointBoundingbox, TRUE, ToNumber(maxLongitude))
    IN  overlap_ # None

\* points inside the boxes of the overlap inputs, on their edges and
\* corners, and beyond the antimeridian on either side
PointLongitudes == {R(-190), R(-180), R(-175), R(-170), R(0), R(170), R(175), R(180), R(190)}

PointLatitudes == {R(-20), R(-10), R(0), R(10), R(20)}

PointInputs ==
    [point : [x : PointLongitudes, y : PointLatitudes],
     boundingBox : {b \in OverlapBoxes : RLeq(b.minLongitude, b.maxLongitude)
                                         /\ RLess(b.minLatitude, b.maxLatitude)},
     maxLongitude : {Null, Number(R(-180)), Number(R(0)), Number(R(180))}]

InitPoint ==
    /\ fn = "isPointInBoundingBox"
    /\ arg \in PointInputs
    /\ out = None
    /\ NoRequest

ApplyIsPointInBoundingBox ==
    /\ fn = "isPointInBoundingBox"
    /\ out = None
    /\ out' = [inside |-> isPointInBoundingBox(arg.point, arg.boundingBox, arg.maxLongitude)]
    /\ UNCHANGED <<fn, arg>>
    /\ UNCHANGED retrieverVars

NextPoint == ApplyIsPointInBoundingBox

SpecPoint == InitPoint /\ [][NextPoint]_vars

\* the point <<x, y>> is in the closed box
InClosedBox(x, y, box) ==
    /\ RLeq(box.minLongitude, x) /\ RLeq(x, box.maxLongitude)
    /\ RLeq(box.minLatitude, y) /\ RLeq(y, box.maxLatitude)

\* C26: isPointInBoundingBox(point, box, maxLongitude) is true exactly when
\* overlap(box, point box, allowEmpty = true, maxLongitude) is not none: a
\* point of the closed box, edges and corners included, is inside; for
\* maxLongitude > 0 so is a point that is in the box after a shift of
\* +2*maxLongitude or -2*maxLongitude; no other point is, and without
\* maxLongitude no shift is applied.
C26_PointInBoundingBox ==
    Applied("isPointInBoundingBox") =>
        LET p == arg.point
            box == arg.boundingBox
            wraps == arg.maxLongitude # Null /\ RLess(R(0), ToNumber(arg.maxLongitude))
            shift == RMul(R(2), ToNumber(arg.maxLongitude))
            pointBox == BoundingBox(p.x, p.y, p.x, p.y)
        IN  /\ out.inside <=> (\/ InClosedBox(p.x, p.y, box)
                               \/ wraps /\ InClosedBox(RAdd(p.x, shift), p.y, box)
                               \/ wraps /\ InClosedBox(RSub(p.x, shift), p.y, box))
            /\ out.inside <=> (IF wraps
                               THEN overlap(box, pointBox, TRUE, ToNumber(arg.maxLongitude))
                               ELSE BoundingBoxOverlap(box, pointBox, TRUE)) # None

\* a point 10 degrees beyond the antimeridian is found in the box on its
\* other side, on the edge of that box
C26_Witness ==
    /\ Applied("isPointInBoundingBox")
    /\ arg.boundingBox = WestOfDateline
    /\ arg.point = [x |-> R(190), y |-> R(10)]
    /\ arg.maxLongitude = Number(R(180))
    /\ out.inside

(***************************************************************************)
(* hasTile against getTile.                                                *)
(***************************************************************************)
\* hasTile(x, y, zoom) returns true on the storage of the request: the tile
\* matrix of the zoom level exists and countByTileGrid is not 0
HasTileReturnsTrue(x, y, zoom) ==
    LET webMercatorBoundingBox == getWebMercatorBoundingBoxFromXYZ(x, y, zoom, None)
        tileMatrix == getTileMatrixWithZoomLevel(tileDao, {zoom})
    IN  /\ tileMatrix # None
        /\ countByTileGrid(tileDao,
                           getTileGridWithTotalBoundingBox(
                               tileDao.tileMatrixSetBox, tileMatrix.matrix_width,
                               tileMatrix.matrix_height, webMercatorBoundingBox),
                           zoom) # 0

\* getTile has come to the end of its fetch: the rows are read, or there was
\* no tile matrix, or the box could not be projected
GetTileFetchIsOver ==
    /\ req # None
    /\ req.op = "getTile"
    /\ \/ Fetched
       \/ pc = "done" /\ outcome.kind = "empty"
       \/ pc = "done" /\ outcome = Failure("projection")

\* C27: hasTile(x, y, zoom) returns true exactly when getTile(x, y, zoom)
\* fetches at least one stored tile.
C27_HasTileAgreesWithGetTile ==
    GetTileFetchIsOver =>
        \A z \in req.zoom : HasTileReturnsTrue(req.x, req.y, z) <=> Len(tiles) > 0

\* HasTileReturnsTrue is what hasTile returns
C27_HasTileReturns ==
    pc = "done" /\ req.op = "hasTile" /\ outcome.kind = "boolean" =>
        \A z \in req.zoom : outcome.value <=> HasTileReturnsTrue(req.x, req.y, z)

\* the part of C27 that the code satisfies: on a storage in EPSG:3857, when
\* the zoom level getTile selects is the zoom level asked for
C27_AgreeWhenZoomAndProjectionAreTheSame ==
    /\ GetTileFetchIsOver
    /\ tileDao.projection = "EPSG:3857"
    /\ call # None
    /\ {call.tileMatrix.zoom_level} = req.zoom
    => \A z \in req.zoom : HasTileReturnsTrue(req.x, req.y, z) <=> Len(tiles) > 0

(***************************************************************************)
(* The column-wrapping loops of getWebMercatorBoundingBoxFromXYZ, one      *)
(* iteration at a time.                                                    *)
(***************************************************************************)
\* the magnitude that stands for every larger one: a column that the loops
\* have driven this far is driven on for ever
WrapLimit == Pow2(30)

\* x + tilesPerSide and x - tilesPerSide, kept within the limit
WrapAdd(x, tilesPerSide_) ==
    IF tilesPerSide_ >= 0
    THEN IF x > WrapLimit - tilesPerSide_ THEN WrapLimit ELSE x + tilesPerSide_
    ELSE IF x < (-WrapLimit) - tilesPerSide_ THEN -WrapLimit ELSE x + tilesPerSide_

WrapSubtract(x, tilesPerSide_) ==
    IF tilesPerSide_ >= 0
    THEN IF x < (-WrapLimit) + tilesPerSide_ THEN -WrapLimit ELSE x - tilesPerSide_
    ELSE IF x > WrapLimit + tilesPerSide_ THEN WrapLimit ELSE x - tilesPerSide_

\* small zoom levels, and the zoom levels around the width of the shift
WrapZooms == Zooms \cup (30..MaxShiftZoom)

WrapInputs == [x : (-2 * Pow2(MaxZoom))..(2 * Pow2(MaxZoom)), zoom : WrapZooms]

InitWrap ==
    /\ fn = "getWebMercatorBoundingBoxFromXYZ"
    /\ arg \in WrapInputs
    /\ out = None
    /\ NoRequest

\* the function is entered: tilesPerSide is computed
EnterWrap ==
    /\ out = None
    /\ out' = [pc |-> "up", x |-> arg.x, tilesPerSide |-> tilesPerSideWithZoom(arg.zoom)]
    /\ UNCHANGED <<fn, arg>>
    /\ UNCHANGED retrieverVars

\* while (x < 0) { x = x + tilesPerSide; }
WrapUpStep ==
    /\ out # None
    /\ out.pc = "up"
    /\ out' = IF out.x < 0
              THEN [out EXCEPT !.x = WrapAdd(out.x, out.tilesPerSide)]
              ELSE [out EXCEPT !.pc = "down"]
    /\ UNCHANGED <<fn, arg>>
    /\ UNCHANGED retrieverVars

\* while (x >= tilesPerSide) { x = x - tilesPerSide; }
WrapDownStep ==
    /\ out # None
    /\ out.pc = "down"
    /\ out' = IF out.x >= out.tilesPerSide
              THEN [out EXCEPT !.x = WrapSubtract(out.x, out.tilesPerSide)]
              ELSE [out EXCEPT !.pc = "wrapped"]
    /\ UNCHANGED <<fn, arg>>
    /\ UNCHANGED retrieverVars

NextWrap == EnterWrap \/ WrapUpStep \/ WrapDownStep

\* the loops are synchronous code: an iteration that can run does run
SpecWrap == InitWrap /\ [][NextWrap]_vars /\ WF_vars(NextWrap)

\* x is the column of [0, 2^zoom - 1] congruent to x0 modulo 2^zoom
IsWrappedColumn(x, x0, zoom) ==
    IF zoom <= 30
    THEN 0 <= x /\ x < Pow2(zoom) /\ (x - x0) % Pow2(zoom) = 0
    ELSE IF x0 >= 0 THEN x = x0
    ELSE zoom = 31 /\ x >= 0 /\ (x - Pow2(30)) - Pow2(30) = x0

WrapIsOver ==
    out # None /\ out.pc = "wrapped" /\ IsWrappedColumn(out.x, arg.x, arg.zoom)

\* C28: for every integer column x and zoom >= 0 the column-wrapping loops
\* terminate, and leave 0 <= x < 2^zoom with x congruent to the column given
\* modulo 2^zoom.
C28_WrapTerminates == <>WrapIsOver

\* the part of C28 that the code satisfies: zoom levels up to 30
C28_WrapTerminatesUpToZoom30 == (arg.zoom <= 30) => <>WrapIsOver

(***************************************************************************)
(* GeoPackageConnection: the functions registered for SQL statements.      *)
(* The state of the object and of its collaborators is held in out:        *)
(*   connection          the adapter in use, an index into adapters        *)
(*   registeredFunctions the names the object has recorded                 *)
(*   adapters            every adapter so far: its raw database and the    *)
(*                       names passed to its registerFunction, in order    *)
(*   functions           the names registered on each raw database         *)
(*   called              the names registerFunction was called with        *)
(***************************************************************************)
\* most adapters a connection goes through
MaxAdapters == 3

FunctionNames == {"ST_IsEmpty", "ST_MinX", "ST_MaxX"}

Databases == {"db1", "db2"}

\* new GeoPackageConnection(connection), with an adapter of database db
Constructed(db) ==
    [connection |-> 1,
     registeredFunctions |-> <<>>,
     adapters |-> <<[db |-> db, passed |-> <<>>]>>,
     functions |-> [d \in Databases |-> {}],
     called |-> {}]

InitConnection ==
    /\ fn = "GeoPackageConnection"
    /\ arg = None
    /\ out \in {Constructed(db) : db \in Databases}
    /\ NoRequest

\* this.connection = Db.create(); this.connection.db = db
setDBConnection ==
    \E db \in Databases :
        /\ Len(out.adapters) < MaxAdapters
        /\ out' = [out EXCEPT !.adapters = Append(@, [db |-> db, passed |-> <<>>]),
                              !.connection = Len(out.adapters) + 1]
        /\ UNCHANGED <<fn, arg>>
        /\ UNCHANGED retrieverVars

\* the adapter's registerFunction registers the function on its database
AdapterRegisterFunction(this, name) ==
    LET db == this.adapters[this.connection].db
    IN  [this EXCEPT !.adapters[this.connection].passed = Append(@, name),
                     !.functions[db] = @ \cup {name}]

CallRegisterFunction(this, name) ==
    LET called == [this EXCEPT !.called = @ \cup {name}]
    IN  IF \A i \in 1..Len(this.registeredFunctions) : this.registeredFunctions[i] # name
        THEN AdapterRegisterFunction(
                 [called EXCEPT !.registeredFunctions = Append(@, name)], name)
        ELSE called

registerFunction ==
    \E name \in FunctionNames :
        /\ out' = CallRegisterFunction(out, name)
        /\ UNCHANGED <<fn, arg>>
        /\ UNCHANGED retrieverVars

NextConnection == setDBConnection \/ registerFunction

SpecConnection == InitConnection /\ [][NextConnection]_vars

\* the names registered on the connection in use
RegisteredOnConnectionInUse == out.functions[out.adapters[out.connection].db]

\* no name was passed twice to the registerFunction of one adapter
PassedAtMostOnce ==
    \A a \in 1..Len(out.adapters) :
        \A i, j \in 1..Len(out.adapters[a].passed) :
            out.adapters[a].passed[i] = out.adapters[a].passed[j] => i = j

\* C29: after any sequence of registerFunction and setDBConnection calls,
\* every name registerFunction has been called with is registered on the
\* connection in use, and no name is passed to the registerFunction of the
\* same underlying connection more than once.
C29_FunctionsFollowConnection ==
    /\ out.called \subseteq RegisteredOnConnectionInUse
    /\ PassedAtMostOnce

\* the part of C29 that the code satisfies: no name is passed twice to one
\* connection, and until setDBConnection is called every name is registered
C29_RegisteredOnceOnFirstConnection ==
    /\ PassedAtMostOnce
    /\ Len(out.adapters) = 1 => out.called \subseteq RegisteredOnConnectionInUse

(***************************************************************************)
(* OffscreenCanvasAdapter.writeImageToBytes: the promises of one call.     *)
(* The state of the call is held in out:                                   *)
(*   writeImageToBytes  the promise returned to the caller                 *)
(*   toBytes            the promise of toBytes                             *)
(*   toDataURL          the promise of toDataURL                           *)
(*   convertToBlob      the promise of canvas.convertToBlob                *)
(*   reader             the FileReader: "none", "reading", "loaded",       *)
(*                      "failed"                                           *)
(***************************************************************************)
Images == {"tile", "blank", "icon"}

ImageTypes == {"PNG", "JPEG", "TIFF"}

WriteInputs == [image : Images, imageFormat : ImageTypes, compressionQuality : {Null, Number(R(1))}]

Pending == [state |-> "pending"]

Resolved(value) == [state |-> "resolved", value |-> value]

Rejected == [state |-> "rejected"]

\* the bytes of the canvas that holds image, in the format asked for
BytesOf(a) == [bytes |-> a.image, type |-> a.imageFormat, quality |-> a.compressionQuality]

InitWrite ==
    /\ fn = "writeImageToBytes"
    /\ arg \in WriteInputs
    /\ out = None
    /\ NoRequest

\* the executor of the promise runs at once: the canvas is created and drawn
\* on, toBytes is called, which calls toDataURL, which calls convertToBlob;
\* an exception in the executor rejects the promise
CallWriteImageToBytes ==
    \E canvasThrows \in BOOLEAN :
        /\ out = None
        /\ out' = IF canvasThrows
                  THEN [writeImageToBytes |-> Rejected, toBytes |-> [state |-> "none"],
                        toDataURL |-> [state |-> "none"],
                        convertToBlob |-> [state |-> "none"], reader |-> "none"]
                  ELSE [writeImageToBytes |-> Pending, toBytes |-> Pending,
                        toDataURL |-> Pending, convertToBlob |-> Pending, reader |-> "none"]
        /\ UNCHANGED <<fn, arg>>
        /\ UNCHANGED retrieverVars

\* convertToBlob resolves: its callback makes a FileReader, listens for
\* 'load' and starts reading
ConvertToBlobResolves ==
    /\ out # None
    /\ out.convertToBlob = Pending
    /\ out' = [out EXCEPT !.convertToBlob = Resolved(BytesOf(arg)), !.reader = "reading"]
    /\ UNCHANGED <<fn, arg>>
    /\ UNCHANGED retrieverVars

\* convertToBlob rejects: nothing handles it
ConvertToBlobRejects ==
    /\ out # None
    /\ out.convertToBlob = Pending
    /\ out' = [out EXCEPT !.convertToBlob = Rejected]
    /\ UNCHANGED <<fn, arg>>
    /\ UNCHANGED retrieverVars

\* the reader fires 'load': toDataURL resolves with the data URL
ReaderLoads ==
    /\ out # None
    /\ out.reader = "reading"
    /\ out' = [out EXCEPT !.reader = "loaded",
                          !.toDataURL = Resolved([dataURL |-> out.convertToBlob.value])]
    /\ UNCHANGED <<fn, arg>>
    /\ UNCHANGED retrieverVars

\* the reader fires 'error': nothing listens
ReaderFails ==
    /\ out # None
    /\ out.reader = "reading"
    /\ out' = [out EXCEPT !.reader = "failed"]
    /\ UNCHANGED <<fn, arg>>
    /\ UNCHANGED retrieverVars

\* the then-callback of toBytes: toBytes resolves with the bytes decoded from
\* the data URL; nothing is done with the promise of toBytes
ToBytesResolves ==
    /\ out # None
    /\ out.toDataURL.state = "resolved"
    /\ out.toBytes = Pending
    /\ out' = [out EXCEPT !.toBytes = Resolved(out.toDataURL.value.dataURL)]
    /\ UNCHANGED <<fn, arg>>
    /\ UNCHANGED retrieverVars

NextWrite ==
    \/ CallWriteImageToBytes
    \/ ConvertToBlobResolves
    \/ ConvertToBlobRejects
    \/ ReaderLoads
    \/ ReaderFails
    \/ ToBytesResolves

\* the event loop runs a call that is made and a callback that is due
SpecWrite == InitWrite /\ [][NextWrite]_vars /\ WF_vars(NextWrite)

ToBytesCompleted == out # None /\ out.toBytes.state = "resolved"

\* C30: every call of writeImageToBytes settles: once the canvas has been
\* converted to bytes (toBytes and toDataURL complete), the promise returned
\* resolves with those bytes.
C30_WriteImageToBytesSettles ==
    ToBytesCompleted ~> (out # None /\ out.writeImageToBytes = Resolved(BytesOf(arg)))

\* the part of C30 that the code satisfies: once the reader has loaded the
\* blob, toBytes resolves with the bytes of the canvas
C30_ToBytesSettles ==
    (out # None /\ out.reader = "loaded") ~> (out # None /\ out.toBytes = Resolved(BytesOf(arg)))

\* the promise returned is never resolved: it is rejected by an exception in
\* its executor, or pending for ever
C30_NeverResolved ==
    out # None => out.writeImageToBytes.state # "resolved"

====
